---- MODULE Spec2Model ----
(***************************************************************************)
(* A model of the Forth interpreter of src/forth.js.                       *)
(*                                                                         *)
(* The interpreter is one memory image (an ArrayBuffer seen both as bytes  *)
(* and as 64-bit float cells), three pointers DS, S, R and a table of      *)
(* native actions.  The model keeps the image as a map from cell-aligned   *)
(* addresses to cells; a cell is either a number (written through the      *)
(* Float64Array view) or eight bytes (written through the Uint8Array       *)
(* view), and the two views are related by the IEEE-754 encoding.          *)
(*                                                                         *)
(* Every JavaScript function of the source is an operator with the same    *)
(* name that maps a machine record to a machine record.  A machine record  *)
(* is  [mem, S, R, DS, out, err, v]:  the image, the pointers, the text    *)
(* written to the sink, the message of the exception in flight (NoErr      *)
(* when none) and the value returned by the last pop or fetch.             *)
(* An operator applied to a machine with an exception in flight returns    *)
(* it unchanged: that is how a throw skips the rest of a function.         *)
(*                                                                         *)
(* The statements of a function are applied in program order.  Where a     *)
(* function keeps intermediate results, the operator is written as a chain *)
(* of local operators after_a, after_b, ...: after_x takes the machines    *)
(* the statements so far have left, and applies the statements that        *)
(* follow the one that left x.  A while loop over an index range is an     *)
(* operator Loop(m, ..., lo, hi) that applies the passes lo .. hi-1 by     *)
(* halving the range.  A call of a function of the interpreter that itself *)
(* calls further functions goes through Call(m, f, arg), which is f(m) or  *)
(* f(m, arg); the words that call nothing but the memory and stack         *)
(* primitives are applied directly.                                        *)
(*                                                                         *)
(* The state machine has one action per entry of the interface returned by *)
(* forth(write), interpret and pop, with interpret split at the passes     *)
(* of the loop of runInterpreter, so that a line that never ends is a      *)
(* behaviour that never leaves the loop.                                   *)
(***************************************************************************)
EXTENDS Integers, Sequences, FiniteSets, TLC

\* ------------------------------------------------------------------------
\* Registers, memory regions and flags
\* ------------------------------------------------------------------------
STATE_ADDR              == 72
TO_IN_ADDR              == 80
INPUT_BUFFER_CHARS_ADDR == 88
CURRENT_DEF_ADDR        == 96
INPUT_BUFFER_ADDR       == 120
INPUT_BUFFER_SIZE       == 256
DATA_STACK_ADDR         == 376
RET_STACK_ADDR          == 632
POD_ADDR                == 8824
PARSE_WORD_ADDR         == 9544
NATIVE_XT_ADDR          == 9800
DSP_START_ADDR          == 10000
MEMORY_SIZE             == 64000

Immediate == 1
Hidden    == 2

\* ------------------------------------------------------------------------
\* Text: a string is the sequence of its character codes
\* ------------------------------------------------------------------------
SPC == 32

RECURSIVE Digits(_)
\* The decimal digits of a natural number, as character codes.
Digits(n) == IF n < 10 THEN <<48 + n>> ELSE Digits(n \div 10) \o <<48 + (n % 10)>>

\* '' + n  of JavaScript, for an integer n.
ToDecimal(n) == IF n < 0 THEN <<45>> \o Digits(0 - n) ELSE Digits(n)

\* The messages of the errors the source throws.
MsgStackUnderflow == <<83,116,97,99,107,32,117,110,100,101,114,102,108,111,119>>  \* "Stack underflow"
MsgWrongDSP       == <<87,114,111,110,103,32,68,83,80,95,83,84,65,82,84,95,65,68,68,82,58,32>>  \* "Wrong DSP_START_ADDR: "
MsgNotAligned     == <<65,100,100,114,101,115,115,32,105,115,32,110,111,116,32,97,108,105,103,110,101,100,46,32,71,105,118,101,110,58,32>>  \* "Address is not aligned. Given: "
MsgInvalidAccess  == <<73,110,118,97,108,105,100,32,97,99,99,101,115,115,32,116,111,32,68,83,80,95,83,84,65,82,84,95,65,68,68,82>>  \* "Invalid access to DSP_START_ADDR"
MsgEmptyName      == <<69,109,112,116,121,32,110,97,109,101>>  \* "Empty name"
MsgUnknown        == <<63>>  \* "?"
MsgNotExecutable  == <<78,111,116,32,97,110,32,101,120,101,99,117,116,97,98,108,101>>  \* "Not an executable"
MsgNotImplemented == <<78,111,116,32,105,109,112,108,101,109,101,110,116,101,100>>  \* "Not implemented"
MsgNotAFunction   == <<95,119,111,114,100,77,97,112,91,114,116,115,93,32,105,115,32,110,111,116,32,97,32,102,117,110,99,116,105,111,110>>  \* "_wordMap[rts] is not a function"
MsgOk             == <<111,107>>  \* "ok"

\* ------------------------------------------------------------------------
\* Cells: the Float64Array and Uint8Array views of one buffer
\* ------------------------------------------------------------------------
Zero8 == <<0, 0, 0, 0, 0, 0, 0, 0>>

FCell(n) == [k |-> "f", n |-> n, b |-> Zero8]
BCell(b) == IF b = Zero8 THEN FCell(0) ELSE [k |-> "b", n |-> 0, b |-> b]

RECURSIVE Pow2(_)
Pow2(e) == IF e = 0 THEN 1 ELSE 2 * Pow2(e - 1)

RECURSIVE Log2(_)
\* floor(log2(a)) for a >= 1
Log2(a) == IF a < 2 THEN 0 ELSE 1 + Log2(a \div 2)

\* The eight bytes (little-endian) of the IEEE-754 double with this sign
\* bit (0 or 128), biased exponent, and top 30 bits t of the fraction.
F64Bytes(sign, biased, t) ==
    << 0, 0,
       (t % 4) * 64,
       (t \div 4) % 256,
       (t \div 1024) % 256,
       (t \div 262144) % 256,
       (biased % 16) * 16 + (t \div 67108864),
       sign + (biased \div 16) >>

\* The bytes of the double that holds the integer n, |n| < 2^31:
\* |n| = 2^e + t / 2^(30 - e), with e = floor(log2(|n|)).
EncodeF64(n) ==
    IF n = 0 THEN Zero8
    ELSE IF n < 0
    THEN F64Bytes(128, Log2(0 - n) + 1023, ((0 - n) - Pow2(Log2(0 - n))) * Pow2(30 - Log2(0 - n)))
    ELSE F64Bytes(0, Log2(n) + 1023, (n - Pow2(Log2(n))) * Pow2(30 - Log2(n)))

\* The integer with this sign bit, exponent e and top 30 fraction bits t
F64Int(sign, e, t) ==
    IF e < 0 \/ e > 30 THEN 0
    ELSE IF sign = 1 THEN 0 - (Pow2(e) + (t \div Pow2(30 - e)))
    ELSE Pow2(e) + (t \div Pow2(30 - e))

\* The integer the bytes of a double stand for when they stand for one
F64Value(b) ==
    F64Int(b[8] \div 128,
           (b[8] % 128) * 16 + (b[7] \div 16) - 1023,
           (b[7] % 16) * 67108864 + b[6] * 262144 + b[5] * 1024
               + b[4] * 4 + (b[3] \div 64))

\* The bytes are the encoding of an integer below 2^31
IsInteger(b) == b = Zero8 \/ EncodeF64(F64Value(b)) = b

\* The integer held by the double with these bytes
DecodeF64(b) == IF b = Zero8 THEN 0 ELSE F64Value(b)

\* The cell reads as a number of the model
Readable(c) == c.k = "f" \/ IsInteger(c.b)

CellNum(c)   == IF c.k = "f" THEN c.n ELSE DecodeF64(c.b)
CellBytes(c) == IF c.k = "f" THEN EncodeF64(c.n) ELSE c.b

InMemory(addr) == addr >= 0 /\ addr < MEMORY_SIZE

\* The cell at an aligned address; the buffer starts zeroed.
CellAt(mem, aAddr) == IF aAddr \in DOMAIN mem THEN mem[aAddr] ELSE FCell(0)

WriteCell(mem, aAddr, c) ==
    IF aAddr \in DOMAIN mem THEN [mem EXCEPT ![aAddr] = c] ELSE (aAddr :> c) @@ mem

\* ------------------------------------------------------------------------
\* Machine records
\* ------------------------------------------------------------------------
NoErr == <<>>

Thrown(m) == m.err # NoErr

Throw(m, msg) == IF Thrown(m) THEN m ELSE [m EXCEPT !.err = msg]

\* The exception state of a call that never returns
Diverges == <<0>>

\* The exception state of a read of a cell whose double is not an integer
\* below 2^31, or of a cell outside the buffer (undefined): such a run is
\* followed no further
Beyond == <<1>>

\* ------------------------------------------------------------------------
\* Memory access
\* ------------------------------------------------------------------------
store(m, x, aAddr) ==
    IF Thrown(m) THEN m
    ELSE IF aAddr = CURRENT_DEF_ADDR /\ (x < DSP_START_ADDR \/ x > MEMORY_SIZE) /\ x # 0
         THEN Throw(m, MsgWrongDSP \o ToDecimal(x))
    ELSE IF aAddr % 8 # 0
         THEN Throw(m, MsgNotAligned \o ToDecimal(aAddr))
    ELSE IF ~InMemory(aAddr) THEN m   \* a typed array ignores a write outside it
    ELSE [m EXCEPT !.mem = WriteCell(m.mem, aAddr, FCell(x))]

\* fetch leaves the value read in m.v
fetch(m, aAddr) ==
    IF Thrown(m) THEN m
    ELSE IF aAddr % 8 # 0
         THEN Throw(m, MsgNotAligned \o ToDecimal(aAddr))
    ELSE IF ~InMemory(aAddr) THEN Throw(m, Beyond)   \* undefined, outside the typed array
    ELSE IF ~Readable(CellAt(m.mem, aAddr)) THEN Throw(m, Beyond)
    ELSE [m EXCEPT !.v = CellNum(CellAt(m.mem, aAddr))]

cStore(m, char, cAddr) ==
    IF Thrown(m) THEN m
    ELSE IF cAddr = CURRENT_DEF_ADDR THEN Throw(m, MsgInvalidAccess)
    ELSE IF ~InMemory(cAddr) THEN m
    ELSE LET aAddr == cAddr - (cAddr % 8)
             old   == CellBytes(CellAt(m.mem, aAddr))
             new   == [old EXCEPT ![(cAddr % 8) + 1] = char % 256]
         IN  [m EXCEPT !.mem = WriteCell(m.mem, aAddr, BCell(new))]

\* cFetch is a pure read: the byte at cAddr
cFetch(m, cAddr) == CellBytes(CellAt(m.mem, cAddr - (cAddr % 8)))[(cAddr % 8) + 1]

\* ------------------------------------------------------------------------
\* Evaluation order.  A function of the source runs its statements in
\* order; an operator here tests each intermediate machine in that order
\* (IF Thrown(a) THEN a ELSE ...), which is also where a throw leaves the
\* function.  A loop of the source over index = lo .. hi-1 is an operator
\* Loop(m, ..., lo, hi) that makes these passes in index order, by halving
\* the range.
\* ------------------------------------------------------------------------

\* ------------------------------------------------------------------------
\* Data stack and return stack
\* ------------------------------------------------------------------------
RECURSIVE Call(_, _, _)

push(m, x) ==
    IF Thrown(m) THEN m
    ELSE LET after_a(a) ==
                 IF Thrown(a) THEN a
                 ELSE [a EXCEPT !.S = a.S + 8]
         IN  after_a(store(m, x, m.S))

\* pop without the test for the empty stack: a variant that the bounds of
\* the stacks have to tell from pop
popUnchecked(m) ==
    IF Thrown(m) THEN m
    ELSE fetch([m EXCEPT !.S = m.S - 8], m.S - 8)

\* pop leaves the value popped in m.v
pop(m) ==
    IF Thrown(m) THEN m
    ELSE IF m.S = DATA_STACK_ADDR THEN Throw(m, MsgStackUnderflow)
    ELSE fetch([m EXCEPT !.S = m.S - 8], m.S - 8)

\* pick leaves the value picked in m.v
pick(m, i) ==
    IF Thrown(m) THEN m
    ELSE LET ptr == m.S - 8 - (i * 8)
         IN  IF ptr < DATA_STACK_ADDR THEN Throw(m, MsgStackUnderflow)
             ELSE fetch(m, ptr)

\* depth is a pure read; x >> 3 is the floor of x / 8
depth(m) == (m.S - DSP_START_ADDR) \div 8

empty(m) == IF Thrown(m) THEN m ELSE [m EXCEPT !.S = DATA_STACK_ADDR]

rPush(m, x) ==
    IF Thrown(m) THEN m
    ELSE LET after_a(a) ==
                 IF Thrown(a) THEN a
                 ELSE [a EXCEPT !.R = a.R + 8]
         IN  after_a(store(m, x, m.R))

rPop(m) ==
    IF Thrown(m) THEN m
    ELSE IF m.R = RET_STACK_ADDR THEN Throw(m, MsgStackUnderflow)
    ELSE fetch([m EXCEPT !.R = m.R - 8], m.R - 8)

rPick(m, i) ==
    IF Thrown(m) THEN m
    ELSE LET ptr == m.R - 8 - (i * 8)
         IN  IF ptr < RET_STACK_ADDR THEN Throw(m, MsgStackUnderflow)
             ELSE fetch(m, ptr)

rEmpty(m) == IF Thrown(m) THEN m ELSE [m EXCEPT !.R = RET_STACK_ADDR]

\* ------------------------------------------------------------------------
\* The sink: write(text) appends to the text the host has received
\* ------------------------------------------------------------------------
write(m, text) == IF Thrown(m) THEN m ELSE [m EXCEPT !.out = m.out \o text]

\* a % b of JavaScript (the sign of the result is the sign of a), b > 0
JsRem(a, b) == IF a >= 0 THEN a % b ELSE 0 - ((0 - a) % b)

\* Bit tests and updates on a flags byte
HasBit(byte, bit) == (byte \div bit) % 2 = 1
SetBit(byte, bit) == IF HasBit(byte, bit) THEN byte ELSE byte + bit
ClearBit(byte, bit) == IF HasBit(byte, bit) THEN byte - bit ELSE byte

\* ------------------------------------------------------------------------
\* Run-time specifics that do not execute another token
\* ------------------------------------------------------------------------
variableRTS(m, pfa) == push(m, pfa)

\* A run time of CONSTANT that pushes the address of the cell: a variant
\* that the value pushed by a constant has to tell from constantRTS
constantPushesAddress(m, pfa) == push(m, pfa)

constantRTS(m, pfa) ==
    LET after_a(a) ==
            IF Thrown(a) THEN a
            ELSE push(a, a.v)
    IN  after_a(fetch(m, pfa))

valueRTS(m, pfa) ==
    LET after_a(a) ==
            IF Thrown(a) THEN a
            ELSE push(a, a.v)
    IN  after_a(fetch(m, pfa))

nextRTS(m, pfa) ==
    LET after_a(a) ==
            IF Thrown(a) THEN a
            ELSE push(a, a.v)
    IN  after_a(fetch(m, pfa))

\* ------------------------------------------------------------------------
\* Numbers
\* ------------------------------------------------------------------------
SUM(m) ==
    LET after_b(a, b) ==
            IF Thrown(b) THEN b
            ELSE push(b, b.v + a.v)
        after_a(a) ==
            IF Thrown(a) THEN a
            ELSE after_b(a, pop(a))
    IN  after_a(pop(m))

MINUS(m) ==
    LET after_b(a, b) ==
            IF Thrown(b) THEN b
            ELSE push(b, b.v - a.v)
        after_a(a) ==
            IF Thrown(a) THEN a
            ELSE after_b(a, pop(a))
    IN  after_a(pop(m))

EQUALS(m) ==
    LET after_b(a, b) ==
            IF Thrown(b) THEN b
            ELSE push(b, IF b.v = a.v THEN -1 ELSE 0)
        after_a(a) ==
            IF Thrown(a) THEN a
            ELSE after_b(a, pop(a))
    IN  after_a(pop(m))

ZERO_EQUALS(m) ==
    LET after_a(a) ==
            IF Thrown(a) THEN a
            ELSE push(a, IF a.v = 0 THEN -1 ELSE 0)
    IN  after_a(pop(m))

W_TRUE(m) == push(m, -1)

W_FALSE(m) == push(m, 0)

\* ------------------------------------------------------------------------
\* Stack operations
\* ------------------------------------------------------------------------
DROP(m) == pop(m)

DUP(m) ==
    LET after_a(a) ==
            IF Thrown(a) THEN a
            ELSE push(a, a.v)
    IN  after_a(pick(m, 0))

QUESTION_DUP(m) ==
    LET after_a(a) ==
            IF Thrown(a) THEN a
            ELSE IF a.v # 0 THEN push(a, a.v) ELSE a
    IN  after_a(pick(m, 0))

W_PICK(m) ==
    LET after_b(a, b) ==
            IF Thrown(b) THEN b
            ELSE push(b, b.v)
        after_a(a) ==
            IF Thrown(a) THEN a
            ELSE after_b(a, pick(a, a.v))
    IN  after_a(pop(m))

OVER(m) ==
    LET after_a(a) ==
            IF Thrown(a) THEN a
            ELSE push(a, a.v)
    IN  after_a(pick(m, 1))

SWAP(m) ==
    LET after_b(a, b) ==
            IF Thrown(b) THEN b
            ELSE push(push(b, a.v), b.v)
        after_a(a) ==
            IF Thrown(a) THEN a
            ELSE after_b(a, pop(a))
    IN  after_a(pop(m))

NIP(m) ==
    LET after_b(a, b) ==
            IF Thrown(b) THEN b
            ELSE push(b, a.v)
        after_a(a) ==
            IF Thrown(a) THEN a
            ELSE after_b(a, pop(a))
    IN  after_a(pop(m))

\* A ROT that rotates the other way: a variant that the stack effects have
\* to tell from ROT
rotBackwards(m) ==
    LET after_c(a, b, c) ==
            IF Thrown(c) THEN c
            ELSE push(push(push(c, a.v), c.v), b.v)
        after_b(a, b) ==
            IF Thrown(b) THEN b
            ELSE after_c(a, b, pop(b))
        after_a(a) ==
            IF Thrown(a) THEN a
            ELSE after_b(a, pop(a))
    IN  after_a(pop(m))

ROT(m) ==
    LET after_c(a, b, c) ==
            IF Thrown(c) THEN c
            ELSE push(push(push(c, b.v), a.v), c.v)
        after_b(a, b) ==
            IF Thrown(b) THEN b
            ELSE after_c(a, b, pop(b))
        after_a(a) ==
            IF Thrown(a) THEN a
            ELSE after_b(a, pop(a))
    IN  after_a(pop(m))

TUCK(m) ==
    LET after_b(a, b) ==
            IF Thrown(b) THEN b
            ELSE push(push(push(b, a.v), b.v), a.v)
        after_a(a) ==
            IF Thrown(a) THEN a
            ELSE after_b(a, pop(a))
    IN  after_a(pop(m))

DEPTH(m) == IF Thrown(m) THEN m ELSE push(m, depth(m))

\* ------------------------------------------------------------------------
\* Return stack operations
\* ------------------------------------------------------------------------
TO_R(m) ==
    LET after_a(a) ==
            IF Thrown(a) THEN a
            ELSE rPush(a, a.v)
    IN  after_a(pop(m))

R_FROM(m) ==
    LET after_a(a) ==
            IF Thrown(a) THEN a
            ELSE push(a, a.v)
    IN  after_a(rPop(m))

R_FETCH(m) ==
    LET after_a(a) ==
            IF Thrown(a) THEN a
            ELSE push(a, a.v)
    IN  after_a(rPick(m, 0))

unNestRTS(m, pfa) == DROP(R_FROM(m))

CHARS(m) == m

CELLS(m) ==
    LET after_a(a) ==
            IF Thrown(a) THEN a
            ELSE push(a, a.v * 8)
    IN  after_a(pop(m))

\* ------------------------------------------------------------------------
\* Memory operations
\* ------------------------------------------------------------------------
HERE(m) == IF Thrown(m) THEN m ELSE push(m, m.DS)

ALIGNED(m) ==
    LET after_delta(a, rem, delta) ==
            push(a, a.v + delta)
        after_rem(a, rem) ==
            after_delta(a, rem, IF rem = 0 THEN 0 ELSE 8 - rem)
        after_a(a) ==
            IF Thrown(a) THEN a
            ELSE after_rem(a, JsRem(a.v, 8))
    IN  after_a(pop(m))

ALLOT(m) ==
    LET after_a(a) ==
            IF Thrown(a) THEN a
            ELSE [a EXCEPT !.DS = a.DS + a.v]
    IN  after_a(pop(m))

ALIGN(m) == ALLOT(MINUS(SWAP(ALIGNED(DUP(HERE(m))))))

STORE(m) ==
    LET after_b(a, b) ==
            IF Thrown(b) THEN b
            ELSE store(b, b.v, a.v)
        after_a(a) ==
            IF Thrown(a) THEN a
            ELSE after_b(a, pop(a))
    IN  after_a(pop(m))

\* An @ that reads the cell the address lies in: a variant that the error
\* of an unaligned address has to tell from FETCH
fetchRoundsDown(m) ==
    LET after_b(a, b) ==
            IF Thrown(b) THEN b
            ELSE push(b, b.v)
        after_a(a) ==
            IF Thrown(a) THEN a
            ELSE after_b(a, fetch(a, a.v - (a.v % 8)))
    IN  after_a(pop(m))

FETCH(m) ==
    LET after_b(a, b) ==
            IF Thrown(b) THEN b
            ELSE push(b, b.v)
        after_a(a) ==
            IF Thrown(a) THEN a
            ELSE after_b(a, fetch(a, a.v))
    IN  after_a(pop(m))

C_STORE(m) ==
    LET after_b(a, b) ==
            IF Thrown(b) THEN b
            ELSE cStore(b, b.v, a.v)
        after_a(a) ==
            IF Thrown(a) THEN a
            ELSE after_b(a, pop(a))
    IN  after_a(pop(m))

C_FETCH(m) ==
    LET after_a(a) ==
            IF Thrown(a) THEN a
            ELSE push(a, cFetch(a, a.v))
    IN  after_a(pop(m))

COMMA(m) == ALLOT(push(STORE(HERE(Call(m, "ALIGN", 0))), 8))

C_COMMA(m) == ALLOT(push(C_STORE(HERE(m)), 1))

POD(m) == push(m, POD_ADDR)

\* ------------------------------------------------------------------------
\* Output
\* ------------------------------------------------------------------------
COUNT(m) ==
    LET after_a(a) ==
            IF Thrown(a) THEN a
            ELSE push(push(a, a.v + 1), cFetch(a, a.v))
    IN  after_a(pop(m))

EMIT(m) ==
    LET after_a(a) ==
            IF Thrown(a) THEN a
            ELSE write(a, IF 31 < a.v /\ a.v < 127 THEN <<a.v>> ELSE <<63>>)
    IN  after_a(pop(m))

RECURSIVE TypeLoop(_, _, _, _)
\* the passes index = lo .. hi-1 of the while loop of TYPE
TypeLoop(m, cAddr, lo, hi) ==
    IF Thrown(m) \/ ~(lo < hi) THEN m
    ELSE IF hi - lo = 1 THEN EMIT(push(m, cFetch(m, cAddr + lo)))
    ELSE LET mid == (lo + hi) \div 2
         IN  TypeLoop(TypeLoop(m, cAddr, lo, mid), cAddr, mid, hi)

TYPE(m) ==
    LET after_b(a, b) ==
            IF Thrown(b) THEN b
            ELSE TypeLoop(b, b.v, 0, a.v)
        after_a(a) ==
            IF Thrown(a) THEN a
            ELSE after_b(a, pop(a))
    IN  after_a(pop(m))

BL(m) == push(m, SPC)

CR(m) == write(m, <<10>>)

SPACE(m) == EMIT(BL(m))

DOT(m) ==
    LET after_a(a) ==
            IF Thrown(a) THEN a
            ELSE SPACE(write(a, ToDecimal(a.v)))
    IN  after_a(pop(m))

RECURSIVE DotSLoop(_, _, _, _)
\* the passes index = lo .. hi-1 of the while loop of DOT_S
DotSLoop(m, length, lo, hi) ==
    IF Thrown(m) \/ ~(lo < hi) THEN m
    ELSE IF hi - lo = 1 THEN DOT(W_PICK(push(m, length - lo - 1)))
    ELSE LET mid == (lo + hi) \div 2
         IN  DotSLoop(DotSLoop(m, length, lo, mid), length, mid, hi)

DOT_S(m) ==
    LET after_b(a, b) ==
            IF Thrown(b) THEN b
            ELSE EMIT(push(EMIT(push(EMIT(push(EMIT(push(b, 60)), 116)), 111)), 112))
        after_a(a) ==
            IF Thrown(a) THEN a
            ELSE after_b(a, DotSLoop(a, a.v, 0, a.v))
    IN  after_a(pop(DEPTH(m)))

\* ------------------------------------------------------------------------
\* Parsing
\* ------------------------------------------------------------------------
TO_IN(m) == push(m, TO_IN_ADDR)

SOURCE(m) ==
    LET after_b(a, b) ==
            IF Thrown(b) THEN b
            ELSE push(b, b.v)
        after_a(a) ==
            IF Thrown(a) THEN a
            ELSE after_b(a, fetch(a, INPUT_BUFFER_CHARS_ADDR))
    IN  after_a(push(m, INPUT_BUFFER_ADDR))

RECURSIVE MoveLoop(_, _, _, _, _)
\* the passes index = lo .. hi-1 of the while loop of C_MOVE
MoveLoop(m, fromAddr, toAddr, lo, hi) ==
    IF Thrown(m) \/ ~(lo < hi) THEN m
    ELSE IF hi - lo = 1 THEN cStore(m, cFetch(m, fromAddr + lo), toAddr + lo)
    ELSE LET mid == (lo + hi) \div 2
         IN  MoveLoop(MoveLoop(m, fromAddr, toAddr, lo, mid), fromAddr, toAddr, mid, hi)

C_MOVE(m) ==
    LET after_c(a, b, c) ==
            IF Thrown(c) THEN c
            ELSE MoveLoop(c, c.v, b.v, 0, a.v)
        after_b(a, b) ==
            IF Thrown(b) THEN b
            ELSE after_c(a, b, pop(b))
        after_a(a) ==
            IF Thrown(a) THEN a
            ELSE after_b(a, pop(a))
    IN  after_a(pop(m))

RECURSIVE ScanName(_, _, _, _, _, _)
\* the while loop of PARSE_NAME: the name found, and the index of the
\* delimiter that ended it (-1 when the loop ran to the end of the buffer)
ScanName(m, inBuffAddr, inBuffSize, index, nameLen, nameAddr) ==
    IF ~(index < inBuffSize)
    THEN [nameLen |-> nameLen, nameAddr |-> nameAddr, stop |-> -1]
    ELSE IF cFetch(m, inBuffAddr + index) = 32
         THEN IF nameLen = 0
              THEN ScanName(m, inBuffAddr, inBuffSize, index + 1, nameLen, nameAddr)
              ELSE [nameLen |-> nameLen, nameAddr |-> nameAddr, stop |-> index]
         ELSE ScanName(m, inBuffAddr, inBuffSize, index + 1, nameLen + 1,
                       IF nameAddr = 0 THEN inBuffAddr + index ELSE nameAddr)

PARSE_NAME(m) ==
    LET after_f(a, b, c, r, d, e, f) ==
            IF Thrown(f) THEN f
            ELSE push(push(f, r.nameAddr), r.nameLen)
        after_e(a, b, c, r, d, e) ==
            IF Thrown(e) THEN e
            ELSE after_f(a, b, c, r, d, e, Call(push(push(push(e, r.nameAddr), PARSE_WORD_ADDR + 1), r.nameLen), "C_MOVE", 0))
        after_d(a, b, c, r, d) ==
            IF Thrown(d) THEN d
            ELSE after_e(a, b, c, r, d, cStore(d, r.nameLen, PARSE_WORD_ADDR))
        after_r(a, b, c, r) ==
            after_d(a, b, c, r, IF r.stop >= 0 THEN store(c, r.stop + 1, TO_IN_ADDR) ELSE c)
        after_c(a, b, c) ==
            IF Thrown(c) THEN c
            ELSE after_r(a, b, c, ScanName(c, b.v, a.v, c.v, 0, 0))
        after_b(a, b) ==
            IF Thrown(b) THEN b
            ELSE after_c(a, b, fetch(b, TO_IN_ADDR))
        after_a(a) ==
            IF Thrown(a) THEN a
            ELSE after_b(a, pop(a))
    IN  after_a(pop(SOURCE(m)))

RECURSIVE ScanDelimiter(_, _, _, _, _)
\* the while loop of PARSE: the index of the delimiter, or maxSize
ScanDelimiter(m, cAddr, maxSize, index, delimiter) ==
    IF ~(index < maxSize) THEN index
    ELSE IF cFetch(m, cAddr + index) = delimiter THEN index
    ELSE ScanDelimiter(m, cAddr, maxSize, index + 1, delimiter)

PARSE(m) ==
    LET after_index(a, b, c, d, index) ==
            push(push(store(d, index + 1, TO_IN_ADDR), c.v + d.v), index - d.v)
        after_d(a, b, c, d) ==
            IF Thrown(d) THEN d
            ELSE after_index(a, b, c, d, ScanDelimiter(d, c.v, b.v, d.v, a.v))
        after_c(a, b, c) ==
            IF Thrown(c) THEN c
            ELSE after_d(a, b, c, fetch(c, TO_IN_ADDR))
        after_b(a, b) ==
            IF Thrown(b) THEN b
            ELSE after_c(a, b, pop(b))
        after_a(a) ==
            IF Thrown(a) THEN a
            ELSE after_b(a, pop(SOURCE(a)))
    IN  after_a(pop(m))

RECURSIVE WordLoop(_, _, _, _, _, _, _)
\* the while loop of WORD: the machine after the copies, the length of the
\* word and the index of the delimiter that ended it (-1 for none)
WordLoop(m, inBuffAddr, inBuffSize, i, delimiter, wordAddr, wordLen) ==
    IF Thrown(m) \/ ~(i < inBuffSize) THEN [m |-> m, wordLen |-> wordLen, stop |-> -1]
    ELSE LET after_char(char) ==
                 IF char = delimiter
                 THEN IF wordLen = 0
                      THEN WordLoop(m, inBuffAddr, inBuffSize, i + 1, delimiter, wordAddr, wordLen)
                      ELSE [m |-> m, wordLen |-> wordLen, stop |-> i]
                 ELSE WordLoop(cStore(m, char, wordAddr + 1 + wordLen),
                               inBuffAddr, inBuffSize, i + 1, delimiter, wordAddr, wordLen + 1)
         IN  after_char(cFetch(m, inBuffAddr + i))

WORD(m) ==
    LET after_h(a, b, c, d, e, r, f, g, h) ==
            IF Thrown(h) THEN h
            ELSE push(cStore(h, r.wordLen, e.v), e.v)
        after_g(a, b, c, d, e, r, f, g) ==
            IF Thrown(g) THEN g
            ELSE after_h(a, b, c, d, e, r, f, g, Call(push(push(push(g, e.v), PARSE_WORD_ADDR + 1), r.wordLen), "C_MOVE", 0))
        after_f(a, b, c, d, e, r, f) ==
            IF Thrown(f) THEN f
            ELSE after_g(a, b, c, d, e, r, f, cStore(f, r.wordLen, PARSE_WORD_ADDR))
        after_r(a, b, c, d, e, r) ==
            after_f(a, b, c, d, e, r, IF r.stop >= 0 THEN store(r.m, r.stop + 1, TO_IN_ADDR) ELSE r.m)
        after_e(a, b, c, d, e) ==
            IF Thrown(e) THEN e
            ELSE after_r(a, b, c, d, e, WordLoop(e, c.v, b.v, d.v, a.v, e.v, 0))
        after_d(a, b, c, d) ==
            IF Thrown(d) THEN d
            ELSE after_e(a, b, c, d, pop(POD(d)))
        after_c(a, b, c) ==
            IF Thrown(c) THEN c
            ELSE after_d(a, b, c, fetch(c, TO_IN_ADDR))
        after_b(a, b) ==
            IF Thrown(b) THEN b
            ELSE after_c(a, b, pop(b))
        after_a(a) ==
            IF Thrown(a) THEN a
            ELSE after_b(a, pop(SOURCE(a)))
    IN  after_a(pop(m))

C_QUOTE(m) ==
    LET after_f(a, b, c, d, e, f) ==
            IF Thrown(f) THEN f
            ELSE push(f, c.v + 1)
        after_e(a, b, c, d, e) ==
            IF Thrown(e) THEN e
            ELSE after_f(a, b, c, d, e, MoveLoop(e, b.v, c.v + 2, 0, a.v))
        after_d(a, b, c, d) ==
            IF Thrown(d) THEN d
            ELSE after_e(a, b, c, d, cStore(cStore(d, 0, c.v), a.v, c.v + 1))
        after_c(a, b, c) ==
            IF Thrown(c) THEN c
            ELSE after_d(a, b, c, ALLOT(push(c, a.v + 2)))
        after_b(a, b) ==
            IF Thrown(b) THEN b
            ELSE after_c(a, b, pop(HERE(Call(b, "ALIGN", 0))))
        after_a(a) ==
            IF Thrown(a) THEN a
            ELSE after_b(a, pop(a))
    IN  after_a(pop(Call(push(m, 34), "PARSE", 0)))

S_QUOTE(m) == COUNT(Call(m, "C_QUOTE", 0))

DOT_QUOTE(m) == TYPE(COUNT(Call(m, "C_QUOTE", 0)))

RECURSIVE CompareLoop(_, _, _, _, _)
\* the while loop of COMPARE: charCmp
CompareLoop(m, cAddr1, cAddr2, len, i) ==
    IF ~(i < len) THEN 0
    ELSE LET after_char2(char1, char2) ==
                 IF char1 # char2 THEN (IF char1 < char2 THEN -1 ELSE 1)
                 ELSE CompareLoop(m, cAddr1, cAddr2, len, i + 1)
             after_char1(char1) ==
                 after_char2(char1, cFetch(m, cAddr2 + i))
         IN  after_char1(cFetch(m, cAddr1 + i))

COMPARE(m) ==
    LET after_charCmp(a, b, c, d, charCmp) ==
            IF charCmp = 0
            THEN IF c.v = a.v THEN push(d, 0)
                 ELSE push(d, IF c.v < a.v THEN -1 ELSE 1)
            ELSE push(d, charCmp)
        after_d(a, b, c, d) ==
            IF Thrown(d) THEN d
            ELSE after_charCmp(a, b, c, d, CompareLoop(d, d.v, b.v, IF c.v < a.v THEN c.v ELSE a.v, 0))
        after_c(a, b, c) ==
            IF Thrown(c) THEN c
            ELSE after_d(a, b, c, pop(c))
        after_b(a, b) ==
            IF Thrown(b) THEN b
            ELSE after_c(a, b, pop(b))
        after_a(a) ==
            IF Thrown(a) THEN a
            ELSE after_b(a, pop(a))
    IN  after_a(pop(m))

RECURSIVE UpperLoop(_, _, _, _, _)
\* the passes index = lo .. hi-1 of the while loop of TO_UPPERCASE
UpperLoop(m, fromAddr, toAddr, lo, hi) ==
    IF Thrown(m) \/ ~(lo < hi) THEN m
    ELSE IF hi - lo = 1
         THEN LET after_charCode(charCode) ==
                      cStore(m, IF 96 < charCode /\ charCode < 123 THEN charCode - 32
                                ELSE charCode,
                             toAddr + lo + 1)
              IN  after_charCode(cFetch(m, fromAddr + lo))
    ELSE LET mid == (lo + hi) \div 2
         IN  UpperLoop(UpperLoop(m, fromAddr, toAddr, lo, mid), fromAddr, toAddr, mid, hi)

TO_UPPERCASE(m) ==
    LET after_d(a, b, c, d) ==
            IF Thrown(d) THEN d
            ELSE push(d, a.v)
        after_c(a, b, c) ==
            IF Thrown(c) THEN c
            ELSE after_d(a, b, c, UpperLoop(cStore(c, b.v, a.v), c.v, a.v, 0, b.v))
        after_b(a, b) ==
            IF Thrown(b) THEN b
            ELSE after_c(a, b, pop(b))
        after_a(a) ==
            IF Thrown(a) THEN a
            ELSE after_b(a, pop(a))
    IN  after_a(pop(m))

RECURSIVE NamesEqual(_, _, _, _, _)
\* the inner while loop of FIND, for i = lo .. hi-1: found stays true
NamesEqual(m, currNFA, nameAddr, lo, hi) ==
    IF ~(lo < hi) THEN TRUE
    ELSE IF hi - lo = 1 THEN cFetch(m, currNFA + 1 + lo) = cFetch(m, nameAddr + lo)
    ELSE /\ NamesEqual(m, currNFA, nameAddr, lo, (lo + hi) \div 2)
         /\ NamesEqual(m, currNFA, nameAddr, (lo + hi) \div 2, hi)

\* A pass of the loop of FIND that does not skip hidden headers: a variant
\* that the result stated for FIND has to tell from FindPass
findPassSeesHidden(m, w, nameAddr, nameLen) ==
    LET after_lengthMatch(currNFA, lengthMatch) ==
            IF ~(currNFA > 0) THEN [w EXCEPT !.how = "miss"]
            ELSE IF currNFA \in w.seen THEN [w EXCEPT !.how = "cycle"]
            ELSE IF lengthMatch /\ NamesEqual(m, currNFA, nameAddr, 0, nameLen)
                 THEN IF (currNFA + 40) % 8 # 0
                      THEN [w EXCEPT !.how = "throw", !.at = currNFA + 40]
                      ELSE [w EXCEPT !.how = "hit"]
            ELSE IF (currNFA + 32) % 8 # 0
                 THEN [w EXCEPT !.how = "throw", !.at = currNFA + 32]
            ELSE IF ~InMemory(currNFA + 32) THEN [w EXCEPT !.how = "miss"]
            ELSE IF ~Readable(CellAt(m.mem, currNFA + 32)) THEN [w EXCEPT !.how = "beyond"]
            ELSE [w EXCEPT !.at = CellNum(CellAt(m.mem, currNFA + 32)),
                           !.seen = w.seen \cup {currNFA}]
        after_currNFA(currNFA) ==
            after_lengthMatch(currNFA, InMemory(currNFA) /\ cFetch(m, currNFA) = nameLen)
    IN  after_currNFA(w.at)

\* One pass of the outer while loop of FIND.  w.at is currNFA and w.seen the
\* headers the loop has left; w.how becomes "hit" (found at w.at), "miss"
\* (the loop ends), "throw" (the loop fetches the unaligned cell w.at) or
\* "cycle" (the loop is back at a header it has left, and so never ends),
\* "beyond" (the link read is not a number of the model),
\* and stays "walk" when the loop goes round.
FindPass(m, w, nameAddr, nameLen) ==
    LET after_isHidden(currNFA, lengthMatch, isHidden) ==
            IF ~(currNFA > 0) THEN [w EXCEPT !.how = "miss"]
            ELSE IF currNFA \in w.seen THEN [w EXCEPT !.how = "cycle"]
            ELSE IF lengthMatch /\ ~isHidden /\ NamesEqual(m, currNFA, nameAddr, 0, nameLen)
                 THEN IF (currNFA + 40) % 8 # 0
                      THEN [w EXCEPT !.how = "throw", !.at = currNFA + 40]
                      ELSE [w EXCEPT !.how = "hit"]
            ELSE IF (currNFA + 32) % 8 # 0
                 THEN [w EXCEPT !.how = "throw", !.at = currNFA + 32]
            ELSE IF ~InMemory(currNFA + 32) THEN [w EXCEPT !.how = "miss"]
            ELSE IF ~Readable(CellAt(m.mem, currNFA + 32)) THEN [w EXCEPT !.how = "beyond"]
            ELSE [w EXCEPT !.at = CellNum(CellAt(m.mem, currNFA + 32)),
                           !.seen = w.seen \cup {currNFA}]
        after_lengthMatch(currNFA, lengthMatch) ==
            after_isHidden(currNFA, lengthMatch, InMemory(currNFA + 31) /\ HasBit(cFetch(m, currNFA + 31), Hidden))
        after_currNFA(currNFA) ==
            after_lengthMatch(currNFA, InMemory(currNFA) /\ cFetch(m, currNFA) = nameLen)
    IN  after_currNFA(w.at)

RECURSIVE FindWalk(_, _, _, _, _)
\* up to n passes of the outer while loop of FIND
FindWalk(m, w, nameAddr, nameLen, n) ==
    IF w.how # "walk" \/ n = 0 THEN w
    ELSE IF n = 1 THEN FindPass(m, w, nameAddr, nameLen)
    ELSE FindWalk(m, FindWalk(m, w, nameAddr, nameLen, n \div 2),
                  nameAddr, nameLen, n - (n \div 2))

\* The outer while loop of FIND from header currNFA.  A walk that leaves no
\* header twice makes fewer passes than the memory has cells.
FindLoop(m, currNFA, nameAddr, nameLen) ==
    FindWalk(m, [how |-> "walk", at |-> currNFA, seen |-> {}],
             nameAddr, nameLen, (MEMORY_SIZE \div 8) + 1)

\* A FIND that begins at the definition before the newest one: a variant
\* that the lookup of a name defined last has to tell from FIND
findFromPrevious(m) ==
    LET after_r(a, b, h, c, r) ==
            CASE r.how = "hit"   ->
                   LET after_d(d) ==
                           push(push(d, d.v),
                                IF HasBit(cFetch(c, r.at + 31), Immediate) THEN 1 ELSE -1)
                   IN  after_d(fetch(c, r.at + 40))
              [] r.how = "miss"  -> push(push(c, b.v - 1), 0)
              [] r.how = "throw" -> fetch(c, r.at)
              [] r.how = "cycle" -> Throw(c, Diverges)
              [] r.how = "beyond" -> Throw(c, Beyond)
        after_c(a, b, h, c) ==
            IF Thrown(c) THEN c
            ELSE after_r(a, b, h, c, FindLoop(c, c.v, b.v, a.v))
        after_h(a, b, h) ==
            IF Thrown(h) THEN h
            ELSE after_c(a, b, h, fetch(h, h.v + 32))
        after_b(a, b) ==
            IF Thrown(b) THEN b
            ELSE after_h(a, b, fetch(b, CURRENT_DEF_ADDR))
        after_a(a) ==
            IF Thrown(a) THEN a
            ELSE after_b(a, pop(a))
    IN  after_a(pop(COUNT(m)))

FIND(m) ==
    LET after_r(a, b, c, r) ==
            CASE r.how = "hit"   ->
                   LET after_d(d) ==
                           push(push(d, d.v),
                                IF HasBit(cFetch(c, r.at + 31), Immediate) THEN 1 ELSE -1)
                   IN  after_d(fetch(c, r.at + 40))
              [] r.how = "miss"  -> push(push(c, b.v - 1), 0)
              [] r.how = "throw" -> fetch(c, r.at)
              [] r.how = "cycle" -> Throw(c, Diverges)
              [] r.how = "beyond" -> Throw(c, Beyond)
        after_c(a, b, c) ==
            IF Thrown(c) THEN c
            ELSE after_r(a, b, c, FindLoop(c, c.v, b.v, a.v))
        after_b(a, b) ==
            IF Thrown(b) THEN b
            ELSE after_c(a, b, fetch(b, CURRENT_DEF_ADDR))
        after_a(a) ==
            IF Thrown(a) THEN a
            ELSE after_b(a, pop(a))
    IN  after_a(pop(COUNT(m)))

RECURSIVE Pow10(_)
Pow10(e) == IF e = 0 THEN 1 ELSE 10 * Pow10(e - 1)

RECURSIVE NumberLoop(_, _, _, _, _, _, _)
\* the while loop of TO_NUMBER: whether the string is a number, the
\* accumulated value and sign, and the index reached
NumberLoop(m, cAddr, len, i, res, sign, factor) ==
    IF ~(i < len) THEN [isNum |-> TRUE, res |-> res, sign |-> sign, i |-> i]
    ELSE LET after_charCode(charCode) ==
                 IF i = 0 /\ charCode = 45
                 THEN NumberLoop(m, cAddr, len, i + 1, res, -1, factor + 1)
                 ELSE IF i = 0 /\ charCode = 43
                 THEN NumberLoop(m, cAddr, len, i + 1, res, sign, factor + 1)
                 ELSE IF 47 < charCode /\ charCode < 58
                 THEN NumberLoop(m, cAddr, len, i + 1,
                                 res + (charCode - 48) * Pow10(len - (factor + 1)),
                                 sign, factor + 1)
                 ELSE [isNum |-> FALSE, res |-> res, sign |-> sign, i |-> i]
         IN  after_charCode(cFetch(m, cAddr + i))

\* A TO_NUMBER that forgets the sign: a variant that the round trip of the
\* numbers has to tell from TO_NUMBER
toNumberUnsigned(m) ==
    LET after_r(a, b, c, r) ==
            IF r.isNum
            THEN push(push(push(c, r.res), b.v + r.i), 0)
            ELSE push(push(push(c, 0), b.v + r.i), a.v - r.i)
        after_c(a, b, c) ==
            IF Thrown(c) THEN c
            ELSE after_r(a, b, c, NumberLoop(c, b.v, a.v, 0, 0, 1, 0))
        after_b(a, b) ==
            IF Thrown(b) THEN b
            ELSE after_c(a, b, pop(b))
        after_a(a) ==
            IF Thrown(a) THEN a
            ELSE after_b(a, pop(a))
    IN  after_a(pop(m))

TO_NUMBER(m) ==
    LET after_r(a, b, c, r) ==
            IF r.isNum
            THEN push(push(push(c, r.res * r.sign), b.v + r.i), 0)
            ELSE push(push(push(c, 0), b.v + r.i), a.v - r.i)
        after_c(a, b, c) ==
            IF Thrown(c) THEN c
            ELSE after_r(a, b, c, NumberLoop(c, b.v, a.v, 0, 0, 1, 0))
        after_b(a, b) ==
            IF Thrown(b) THEN b
            ELSE after_c(a, b, pop(b))
        after_a(a) ==
            IF Thrown(a) THEN a
            ELSE after_b(a, pop(a))
    IN  after_a(pop(m))

TICK(m) ==
    LET after_d(a, b, c, d) ==
            IF Thrown(d) THEN d
            ELSE IF d.v = 0 THEN Throw(d, MsgUnknown) ELSE d
        after_c(a, b, c) ==
            IF Thrown(c) THEN c
            ELSE after_d(a, b, c, pop(c))
        after_b(a, b) ==
            IF Thrown(b) THEN b
            ELSE after_c(a, b, Call(b, "FIND", 0))
        after_a(a) ==
            IF Thrown(a) THEN a
            ELSE after_b(a, Call(POD(a), "TO_UPPERCASE", 0))
    IN  after_a(Call(m, "PARSE_NAME", 0))

TO_BODY(m) ==
    LET after_a(a) ==
            IF Thrown(a) THEN a
            ELSE push(a, a.v \div 100000)
    IN  after_a(pop(m))

EVALUATE(m) == Throw(m, MsgNotImplemented)

CHAR(m) ==
    LET after_a(a) ==
            IF Thrown(a) THEN a
            ELSE push(a, cFetch(a, a.v + 1))
    IN  after_a(pop(Call(BL(m), "WORD", 0)))

\* ------------------------------------------------------------------------
\* Defining words
\* ------------------------------------------------------------------------
CREATE(m) ==
    LET after_k(a, b, c, d, e, nfa, f, g, h, i, j, k) ==
            IF Thrown(k) THEN k
            ELSE store(k, 100000 * (nfa + 48) + NATIVE_XT_ADDR, nfa + 40)
        after_j(a, b, c, d, e, nfa, f, g, h, i, j) ==
            IF Thrown(j) THEN j
            ELSE after_k(a, b, c, d, e, nfa, f, g, h, i, j, store(j, nfa, CURRENT_DEF_ADDR))
        after_i(a, b, c, d, e, nfa, f, g, h, i) ==
            IF Thrown(i) THEN i
            ELSE after_j(a, b, c, d, e, nfa, f, g, h, i, store(i, i.v, nfa + 32))
        after_h(a, b, c, d, e, nfa, f, g, h) ==
            IF Thrown(h) THEN h
            ELSE after_i(a, b, c, d, e, nfa, f, g, h, fetch(h, CURRENT_DEF_ADDR))
        after_g(a, b, c, d, e, nfa, f, g) ==
            IF Thrown(g) THEN g
            ELSE after_h(a, b, c, d, e, nfa, f, g, cStore(DROP(g), 0, nfa + 31))
        after_f(a, b, c, d, e, nfa, f) ==
            IF Thrown(f) THEN f
            ELSE after_g(a, b, c, d, e, nfa, f, Call(push(push(push(f, c.v), b.v), nfa), "TO_UPPERCASE", 0))
        after_nfa(a, b, c, d, e, nfa) ==
            after_f(a, b, c, d, e, nfa, ALLOT(push(e, 48)))
        after_e(a, b, c, d, e) ==
            IF Thrown(e) THEN e
            ELSE after_nfa(a, b, c, d, e, e.v)
        after_d(a, b, c, d) ==
            IF Thrown(d) THEN d
            ELSE after_e(a, b, c, d, pop(HERE(d)))
        after_c(a, b, c) ==
            IF Thrown(c) THEN c
            ELSE after_d(a, b, c, IF b.v = 0 THEN Throw(c, MsgEmptyName) ELSE Call(c, "ALIGN", 0))
        after_b(a, b) ==
            IF Thrown(b) THEN b
            ELSE after_c(a, b, pop(b))
        after_a(a) ==
            IF Thrown(a) THEN a
            ELSE after_b(a, pop(a))
    IN  after_a(Call(m, "PARSE_NAME", 0))

W_VARIABLE(m) ==
    LET after_a(a) ==
            IF Thrown(a) THEN a
            ELSE Call(push(a, 0), "COMMA", 0)
    IN  after_a(Call(m, "CREATE", 0))

W_CONSTANT(m) ==
    LET after_d(a, b, c, d) ==
            IF Thrown(d) THEN d
            ELSE Call(push(d, a.v), "COMMA", 0)
        after_c(a, b, c) ==
            IF Thrown(c) THEN c
            ELSE after_d(a, b, c, store(c, 100000 * c.v + NATIVE_XT_ADDR + 1, c.v - 8))
        after_b(a, b) ==
            IF Thrown(b) THEN b
            ELSE after_c(a, b, pop(HERE(b)))
        after_a(a) ==
            IF Thrown(a) THEN a
            ELSE after_b(a, Call(a, "CREATE", 0))
    IN  after_a(pop(m))

VALUE(m) ==
    LET after_d(a, b, c, d) ==
            IF Thrown(d) THEN d
            ELSE Call(push(d, a.v), "COMMA", 0)
        after_c(a, b, c) ==
            IF Thrown(c) THEN c
            ELSE after_d(a, b, c, store(c, 100000 * c.v + NATIVE_XT_ADDR + 2, c.v - 8))
        after_b(a, b) ==
            IF Thrown(b) THEN b
            ELSE after_c(a, b, pop(HERE(b)))
        after_a(a) ==
            IF Thrown(a) THEN a
            ELSE after_b(a, Call(a, "CREATE", 0))
    IN  after_a(pop(m))

\* A TO that stores nothing: a variant that the value pushed after TO has
\* to tell from TO
toStoresNothing(m) ==
    LET after_c(a, b, c) ==
            c
        after_b(a, b) ==
            IF Thrown(b) THEN b
            ELSE after_c(a, b, pop(b))
        after_a(a) ==
            IF Thrown(a) THEN a
            ELSE after_b(a, Call(a, "TICK", 0))
    IN  after_a(pop(m))

TO(m) ==
    LET after_c(a, b, c) ==
            IF Thrown(c) THEN c
            ELSE store(c, a.v, c.v \div 100000)
        after_b(a, b) ==
            IF Thrown(b) THEN b
            ELSE after_c(a, b, pop(b))
        after_a(a) ==
            IF Thrown(a) THEN a
            ELSE after_b(a, Call(a, "TICK", 0))
    IN  after_a(pop(m))

\* ------------------------------------------------------------------------
\* Compilation state, QUIT and ABORT
\* ------------------------------------------------------------------------
W_STATE(m) == push(m, STATE_ADDR)

RIGHT_BRACKET(m) == STORE(W_STATE(W_TRUE(m)))

LEFT_BRACKET(m) == STORE(W_STATE(W_FALSE(m)))

RECURSIVE WipeLoop(_, _, _)
\* the passes index = lo .. hi-1 of the while loop of QUIT
WipeLoop(m, lo, hi) ==
    IF Thrown(m) \/ ~(lo < hi) THEN m
    ELSE IF hi - lo = 1 THEN cStore(m, 32, INPUT_BUFFER_ADDR + lo)
    ELSE LET mid == (lo + hi) \div 2
         IN  WipeLoop(WipeLoop(m, lo, mid), mid, hi)

\* QUIT without the return to interpret state: a variant that the effect
\* stated for QUIT and ABORT has to tell from QUIT
quitKeepsState(m) ==
    LET after_b(a, b) ==
            IF Thrown(b) THEN b
            ELSE store(b, 0, TO_IN_ADDR)
        after_a(a) ==
            IF Thrown(a) THEN a
            ELSE after_b(a, store(a, 0, INPUT_BUFFER_CHARS_ADDR))
    IN  after_a(WipeLoop(rEmpty(m), 0, INPUT_BUFFER_SIZE))

QUIT(m) ==
    LET after_c(a, b, c) ==
            IF Thrown(c) THEN c
            ELSE LEFT_BRACKET(c)
        after_b(a, b) ==
            IF Thrown(b) THEN b
            ELSE after_c(a, b, store(b, 0, TO_IN_ADDR))
        after_a(a) ==
            IF Thrown(a) THEN a
            ELSE after_b(a, store(a, 0, INPUT_BUFFER_CHARS_ADDR))
    IN  after_a(WipeLoop(rEmpty(m), 0, INPUT_BUFFER_SIZE))

\* ABORT that also empties the dictionary: a variant that the persistence
\* of definitions has to tell from ABORT
abortForgets(m) == store(Call(empty(m), "QUIT", 0), 0, CURRENT_DEF_ADDR)

ABORT(m) == Call(empty(m), "QUIT", 0)

\* A : that does not set the Hidden flag: a variant that the name used in
\* its own body has to tell from COLON
colonLeavesVisible(m) ==
    LET after_d(a, nfa, b, c, d) ==
            IF Thrown(d) THEN d
            ELSE RIGHT_BRACKET(d)
        after_c(a, nfa, b, c) ==
            IF Thrown(c) THEN c
            ELSE after_d(a, nfa, b, c, store(c, 100000 * (nfa + 48) + NATIVE_XT_ADDR + 3, nfa + 40))
        after_b(a, nfa, b) ==
            IF Thrown(b) THEN b
            ELSE after_c(a, nfa, b, cStore(b, cFetch(b, nfa + 31), nfa + 31))
        after_nfa(a, nfa) ==
            after_b(a, nfa, Call(a, "CREATE", 0))
        after_a(a) ==
            IF Thrown(a) THEN a
            ELSE after_nfa(a, a.v)
    IN  after_a(pop(HERE(Call(m, "ALIGN", 0))))

COLON(m) ==
    LET after_d(a, nfa, b, c, d) ==
            IF Thrown(d) THEN d
            ELSE RIGHT_BRACKET(d)
        after_c(a, nfa, b, c) ==
            IF Thrown(c) THEN c
            ELSE after_d(a, nfa, b, c, store(c, 100000 * (nfa + 48) + NATIVE_XT_ADDR + 3, nfa + 40))
        after_b(a, nfa, b) ==
            IF Thrown(b) THEN b
            ELSE after_c(a, nfa, b, cStore(b, SetBit(cFetch(b, nfa + 31), Hidden), nfa + 31))
        after_nfa(a, nfa) ==
            after_b(a, nfa, Call(a, "CREATE", 0))
        after_a(a) ==
            IF Thrown(a) THEN a
            ELSE after_nfa(a, a.v)
    IN  after_a(pop(HERE(Call(m, "ALIGN", 0))))

SEMICOLON(m) ==
    LET after_e(a, b, c, d, e) ==
            IF Thrown(e) THEN e
            ELSE Call(e, "ALIGN", 0)
        after_d(a, b, c, d) ==
            IF Thrown(d) THEN d
            ELSE after_e(a, b, c, d, LEFT_BRACKET(d))
        after_c(a, b, c) ==
            IF Thrown(c) THEN c
            ELSE after_d(a, b, c, Call(push(c, 100000 * c.v + NATIVE_XT_ADDR + 4), "COMMA", 0))
        after_b(a, b) ==
            IF Thrown(b) THEN b
            ELSE after_c(a, b, pop(HERE(b)))
        after_a(a) ==
            IF Thrown(a) THEN a
            ELSE after_b(a, cStore(a, ClearBit(cFetch(a, a.v + 31), Hidden), a.v + 31))
    IN  after_a(fetch(m, CURRENT_DEF_ADDR))

IMMEDIATE(m) ==
    LET after_a(a) ==
            IF Thrown(a) THEN a
            ELSE cStore(a, SetBit(cFetch(a, a.v + 31), Immediate), a.v + 31)
    IN  after_a(fetch(m, CURRENT_DEF_ADDR))

\* A COMPILE, that executes the token: a variant that the dispatch of the
\* outer loop in compile state has to tell from COMPILE_COMMA
compileCommaExecutes(m) == Call(m, "EXECUTE", 0)

COMPILE_COMMA(m) ==
    LET after_b(a, b) ==
            IF Thrown(b) THEN b
            ELSE Call(push(b, 100000 * b.v + NATIVE_XT_ADDR + 5), "COMMA", 0)
        after_a(a) ==
            IF Thrown(a) THEN a
            ELSE after_b(a, pop(HERE(a)))
    IN  after_a(Call(m, "COMMA", 0))

\* ------------------------------------------------------------------------
\* The native words in the order addWords registers them: name, action,
\* flags.  The comment gives the runtime id of each and its name.
\* ------------------------------------------------------------------------
Words == <<
    << <<>>, "variableRTS", 2 >>,                               \* 9800  
    << <<>>, "constantRTS", 2 >>,                               \* 9801  
    << <<>>, "valueRTS", 2 >>,                                  \* 9802  
    << <<>>, "nestRTS", 2 >>,                                   \* 9803  
    << <<>>, "unNestRTS", 2 >>,                                 \* 9804  
    << <<>>, "nextRTS", 2 >>,                                   \* 9805  
    << <<>>, "cellRTS", 2 >>,                                   \* 9806  
    << <<43>>, "SUM", 0 >>,                                     \* 9807  +
    << <<45>>, "MINUS", 0 >>,                                   \* 9808  -
    << <<61>>, "EQUALS", 0 >>,                                  \* 9809  =
    << <<48,61>>, "ZERO_EQUALS", 0 >>,                          \* 9810  0=
    << <<84,82,85,69>>, "TRUE", 0 >>,                           \* 9811  TRUE
    << <<70,65,76,83,69>>, "FALSE", 0 >>,                       \* 9812  FALSE
    << <<68,82,79,80>>, "DROP", 0 >>,                           \* 9813  DROP
    << <<68,85,80>>, "DUP", 0 >>,                               \* 9814  DUP
    << <<63,68,85,80>>, "QUESTION_DUP", 0 >>,                   \* 9815  ?DUP
    << <<80,73,67,75>>, "PICK", 0 >>,                           \* 9816  PICK
    << <<79,86,69,82>>, "OVER", 0 >>,                           \* 9817  OVER
    << <<83,87,65,80>>, "SWAP", 0 >>,                           \* 9818  SWAP
    << <<78,73,80>>, "NIP", 0 >>,                               \* 9819  NIP
    << <<82,79,84>>, "ROT", 0 >>,                               \* 9820  ROT
    << <<84,85,67,75>>, "TUCK", 0 >>,                           \* 9821  TUCK
    << <<68,69,80,84,72>>, "DEPTH", 0 >>,                       \* 9822  DEPTH
    << <<82,62>>, "R_FROM", 0 >>,                               \* 9823  R>
    << <<62,82>>, "TO_R", 0 >>,                                 \* 9824  >R
    << <<82,64>>, "R_FETCH", 0 >>,                              \* 9825  R@
    << <<72,69,82,69>>, "HERE", 0 >>,                           \* 9826  HERE
    << <<80,79,68>>, "POD", 0 >>,                               \* 9827  POD
    << <<67,82,69,65,84,69>>, "CREATE", 0 >>,                   \* 9828  CREATE
    << <<86,65,82,73,65,66,76,69>>, "VARIABLE", 0 >>,           \* 9829  VARIABLE
    << <<67,79,78,83,84,65,78,84>>, "CONSTANT", 0 >>,           \* 9830  CONSTANT
    << <<86,65,76,85,69>>, "VALUE", 0 >>,                       \* 9831  VALUE
    << <<84,79>>, "TO", 0 >>,                                   \* 9832  TO
    << <<67,72,65,82,83>>, "CHARS", 0 >>,                       \* 9833  CHARS
    << <<67,69,76,76,83>>, "CELLS", 0 >>,                       \* 9834  CELLS
    << <<65,76,73,71,78,69,68>>, "ALIGNED", 0 >>,               \* 9835  ALIGNED
    << <<65,76,73,71,78>>, "ALIGN", 0 >>,                       \* 9836  ALIGN
    << <<65,76,76,79,84>>, "ALLOT", 0 >>,                       \* 9837  ALLOT
    << <<44>>, "COMMA", 0 >>,                                   \* 9838  ,
    << <<64>>, "FETCH", 0 >>,                                   \* 9839  @
    << <<33>>, "STORE", 0 >>,                                   \* 9840  !
    << <<67,44>>, "C_COMMA", 0 >>,                              \* 9841  C,
    << <<67,64>>, "C_FETCH", 0 >>,                              \* 9842  C@
    << <<67,33>>, "C_STORE", 0 >>,                              \* 9843  C!
    << <<67,79,85,78,84>>, "COUNT", 0 >>,                       \* 9844  COUNT
    << <<69,77,73,84>>, "EMIT", 0 >>,                           \* 9845  EMIT
    << <<84,89,80,69>>, "TYPE", 0 >>,                           \* 9846  TYPE
    << <<62,73,78>>, "TO_IN", 0 >>,                             \* 9847  >IN
    << <<83,79,85,82,67,69>>, "SOURCE", 0 >>,                   \* 9848  SOURCE
    << <<80,65,82,83,69>>, "PARSE", 0 >>,                       \* 9849  PARSE
    << <<80,65,82,83,69,45,78,65,77,69>>, "PARSE_NAME", 0 >>,   \* 9850  PARSE-NAME
    << <<87,79,82,68>>, "WORD", 0 >>,                           \* 9851  WORD
    << <<83,34>>, "S_QUOTE", 1 >>,                              \* 9852  S"
    << <<67,34>>, "C_QUOTE", 1 >>,                              \* 9853  C"
    << <<46,34>>, "DOT_QUOTE", 1 >>,                            \* 9854  ."
    << <<67,79,77,80,65,82,69>>, "COMPARE", 0 >>,               \* 9855  COMPARE
    << <<70,73,78,68>>, "FIND", 0 >>,                           \* 9856  FIND
    << <<67,77,79,86,69>>, "C_MOVE", 0 >>,                      \* 9857  CMOVE
    << <<62,78,85,77,66,69,82>>, "TO_NUMBER", 0 >>,             \* 9858  >NUMBER
    << <<62,85,80,80,69,82,67,65,83,69>>, "TO_UPPERCASE", 0 >>, \* 9859  >UPPERCASE
    << <<39>>, "TICK", 0 >>,                                    \* 9860  '
    << <<69,88,69,67,85,84,69>>, "EXECUTE", 0 >>,               \* 9861  EXECUTE
    << <<67,79,77,80,73,76,69,44>>, "COMPILE_COMMA", 0 >>,      \* 9862  COMPILE,
    << <<69,86,65,76,85,65,84,69>>, "EVALUATE", 0 >>,           \* 9863  EVALUATE
    << <<62,66,79,68,89>>, "TO_BODY", 0 >>,                     \* 9864  >BODY
    << <<67,72,65,82>>, "CHAR", 0 >>,                           \* 9865  CHAR
    << <<66,76>>, "BL", 0 >>,                                   \* 9866  BL
    << <<67,82>>, "CR", 0 >>,                                   \* 9867  CR
    << <<46>>, "DOT", 0 >>,                                     \* 9868  .
    << <<46,83>>, "DOT_S", 0 >>,                                \* 9869  .S
    << <<83,80,65,67,69>>, "SPACE", 0 >>,                       \* 9870  SPACE
    << <<65,66,79,82,84>>, "ABORT", 0 >>,                       \* 9871  ABORT
    << <<81,85,73,84>>, "QUIT", 0 >>,                           \* 9872  QUIT
    << <<83,84,65,84,69>>, "STATE", 0 >>,                       \* 9873  STATE
    << <<93>>, "RIGHT_BRACKET", 0 >>,                           \* 9874  ]
    << <<91>>, "LEFT_BRACKET", 1 >>,                            \* 9875  [
    << <<58>>, "COLON", 1 >>,                                   \* 9876  :
    << <<59>>, "SEMICOLON", 1 >>,                               \* 9877  ;
    << <<73,77,77,69,68,73,65,84,69>>, "IMMEDIATE", 0 >>        \* 9878  IMMEDIATE
    >>

\* _wordMap after construction: runtime id -> native action
wordMap == [rts \in NATIVE_XT_ADDR .. (NATIVE_XT_ADDR + Len(Words) - 1) |->
               Words[rts - NATIVE_XT_ADDR + 1][2]]

\* ------------------------------------------------------------------------
\* The inner interpreter
\* ------------------------------------------------------------------------
nestRTS(m, pfa) ==
    LET after_b(a, b) ==
            IF Thrown(b) THEN b
            ELSE Call(b, "EXECUTE", 0)
        after_a(a) ==
            IF Thrown(a) THEN a
            ELSE after_b(a, TO_R(DUP(push(a, a.v))))
    IN  after_a(fetch(m, pfa))

cellRTS(m, addr) ==
    LET after_d(a, b, c, d) ==
            IF Thrown(d) THEN d
            ELSE Call(d, "EXECUTE", 0)
        after_c(a, b, c) ==
            IF Thrown(c) THEN c
            ELSE after_d(a, b, c, push(c, c.v))
        after_b(a, b) ==
            IF Thrown(b) THEN b
            ELSE after_c(a, b, fetch(b, addr + 8))
        after_a(a) ==
            IF Thrown(a) THEN a
            ELSE after_b(a, push(a, a.v))
    IN  after_a(fetch(m, addr))

EXECUTE(m) ==
    LET after_pfa(a, xt, rts, pfa) ==
            IF NATIVE_XT_ADDR <= rts /\ rts < DSP_START_ADDR
            THEN IF rts \in DOMAIN wordMap
                 THEN Call(a, wordMap[rts], pfa)
                 ELSE Throw(a, MsgNotAFunction)
            ELSE Throw(a, MsgNotExecutable)
        after_rts(a, xt, rts) ==
            after_pfa(a, xt, rts, xt \div 100000)
        after_xt(a, xt) ==
            after_rts(a, xt, JsRem(xt, 10000))
        after_a(a) ==
            IF Thrown(a) THEN a
            ELSE after_xt(a, a.v)
    IN  after_a(pop(m))

\* ------------------------------------------------------------------------
\* Construction
\* ------------------------------------------------------------------------
RECURSIVE NameLoop(_, _, _, _, _)
\* the passes index = lo .. hi-1 of the while loop of addWord
NameLoop(m, word, wordNFA, lo, hi) ==
    IF Thrown(m) \/ ~(lo < hi) THEN m
    ELSE IF hi - lo = 1 THEN cStore(m, word[lo + 1], wordNFA + lo + 1)
    ELSE LET mid == (lo + hi) \div 2
         IN  NameLoop(NameLoop(m, word, wordNFA, lo, mid), word, wordNFA, mid, hi)

\* rts is NATIVE_XT_ADDR plus the number of words registered so far
addWord(m, word, flags, rts) ==
    LET after_i(a, wordNFA, b, c, d, e, f, g, h, i) ==
            IF Thrown(i) THEN i
            ELSE store(i, 0, wordNFA + 48)
        after_h(a, wordNFA, b, c, d, e, f, g, h) ==
            IF Thrown(h) THEN h
            ELSE after_i(a, wordNFA, b, c, d, e, f, g, h, store(h, 100000 * (wordNFA + 48) + rts, wordNFA + 40))
        after_g(a, wordNFA, b, c, d, e, f, g) ==
            IF Thrown(g) THEN g
            ELSE after_h(a, wordNFA, b, c, d, e, f, g, store(g, wordNFA, CURRENT_DEF_ADDR))
        after_f(a, wordNFA, b, c, d, e, f) ==
            IF Thrown(f) THEN f
            ELSE after_g(a, wordNFA, b, c, d, e, f, store(f, f.v, wordNFA + 32))
        after_e(a, wordNFA, b, c, d, e) ==
            IF Thrown(e) THEN e
            ELSE after_f(a, wordNFA, b, c, d, e, fetch(e, CURRENT_DEF_ADDR))
        after_d(a, wordNFA, b, c, d) ==
            IF Thrown(d) THEN d
            ELSE after_e(a, wordNFA, b, c, d, cStore(d, flags, wordNFA + 31))
        after_c(a, wordNFA, b, c) ==
            IF Thrown(c) THEN c
            ELSE after_d(a, wordNFA, b, c, NameLoop(c, word, wordNFA, 0, IF Len(word) < 30 THEN Len(word) ELSE 30))
        after_b(a, wordNFA, b) ==
            IF Thrown(b) THEN b
            ELSE after_c(a, wordNFA, b, cStore(b, Len(word), wordNFA))
        after_wordNFA(a, wordNFA) ==
            after_b(a, wordNFA, ALLOT(push(a, 48)))
        after_a(a) ==
            IF Thrown(a) THEN a
            ELSE after_wordNFA(a, a.v)
    IN  after_a(pop(HERE(Call(m, "ALIGN", 0))))

RECURSIVE addWordsFrom(_, _, _)
\* the calls of addWord for the words lo .. hi-1 of the table, in order
addWordsFrom(m, lo, hi) ==
    IF Thrown(m) \/ ~(lo < hi) THEN m
    ELSE IF hi - lo = 1
         THEN addWord(m, Words[lo][1], Words[lo][3], NATIVE_XT_ADDR + lo - 1)
    ELSE LET mid == (lo + hi) \div 2
         IN  addWordsFrom(addWordsFrom(m, lo, mid), mid, hi)

addWords(m) == addWordsFrom(m, 1, Len(Words) + 1)

\* The image drops the cells that hold zero, so that one memory has one
\* representation.
Canon(mem) == [a \in {x \in DOMAIN mem : mem[x] # FCell(0)} |-> mem[a]]

\* ------------------------------------------------------------------------
\* The outer interpreter
\* ------------------------------------------------------------------------
RECURSIVE TextLoop(_, _, _, _, _)
\* the passes index = lo .. hi-1 of the while loop of typeText
TextLoop(m, text, cAddr, lo, hi) ==
    IF Thrown(m) \/ ~(lo < hi) THEN m
    ELSE IF hi - lo = 1 THEN cStore(m, text[lo + 1], cAddr + 1 + lo)
    ELSE LET mid == (lo + hi) \div 2
         IN  TextLoop(TextLoop(m, text, cAddr, lo, mid), text, cAddr, mid, hi)

typeText(m, text) ==
    LET after_b(a, b) ==
            IF Thrown(b) THEN b
            ELSE TYPE(COUNT(push(b, a.v)))
        after_a(a) ==
            IF Thrown(a) THEN a
            ELSE after_b(a, TextLoop(cStore(a, Len(text), a.v), text, a.v, 0, Len(text)))
    IN  after_a(pop(POD(m)))

typeParsedWord(m) == TYPE(COUNT(push(m, PARSE_WORD_ADDR)))

\* abort that only prints the diagnostic: a variant that the reset after an
\* error has to tell from abort
abortOnlyPrints(m, message) ==
    LET after_d(b, c, d) ==
            IF Thrown(d) THEN d
            ELSE CR(d)
        after_c(b, c) ==
            IF Thrown(c) THEN c
            ELSE after_d(b, c, Call(c, "typeText", message))
        after_b(b) ==
            IF Thrown(b) THEN b
            ELSE after_c(b, SPACE(b))
    IN  after_b(Call(m, "typeParsedWord", 0))

abort(m, message) ==
    LET after_d(a, b, c, d) ==
            IF Thrown(d) THEN d
            ELSE CR(d)
        after_c(a, b, c) ==
            IF Thrown(c) THEN c
            ELSE after_d(a, b, c, Call(c, "typeText", message))
        after_b(a, b) ==
            IF Thrown(b) THEN b
            ELSE after_c(a, b, SPACE(b))
        after_a(a) ==
            IF Thrown(a) THEN a
            ELSE after_b(a, Call(a, "typeParsedWord", 0))
    IN  after_a(Call(m, "ABORT", 0))

RECURSIVE CopyLoop(_, _, _, _)
\* the passes index = lo .. hi-1 of the first while loop of interpret
CopyLoop(m, srcCode, lo, hi) ==
    IF Thrown(m) \/ ~(lo < hi) THEN m
    ELSE IF hi - lo = 1 THEN cStore(m, srcCode[lo + 1], INPUT_BUFFER_ADDR + lo)
    ELSE LET mid == (lo + hi) \div 2
         IN  CopyLoop(CopyLoop(m, srcCode, lo, mid), srcCode, mid, hi)

RECURSIVE FillLoop(_, _, _)
\* the passes index = lo .. hi-1 of the second while loop of interpret
FillLoop(m, lo, hi) ==
    IF Thrown(m) \/ ~(lo < hi) THEN m
    ELSE IF hi - lo = 1 THEN cStore(m, 32, INPUT_BUFFER_ADDR + lo)
    ELSE LET mid == (lo + hi) \div 2
         IN  FillLoop(FillLoop(m, lo, mid), mid, hi)

\* text.slice(0, INPUT_BUFFER_SIZE - 2) + ' '
SrcCode(text) ==
    SubSeq(text, 1, IF Len(text) < INPUT_BUFFER_SIZE - 2 THEN Len(text)
                    ELSE INPUT_BUFFER_SIZE - 2) \o <<32>>

\* interpret(text) up to the loop of runInterpreter: the copy of the text
\* into the input buffer, then the echo of the buffer
interpret(m, text) ==
    LET after_e(srcCode, a, b, c, d, e) ==
            IF Thrown(e) THEN e
            ELSE TYPE(e)
        after_d(srcCode, a, b, c, d) ==
            IF Thrown(d) THEN d
            ELSE after_e(srcCode, a, b, c, d, SOURCE(d))
        after_c(srcCode, a, b, c) ==
            IF Thrown(c) THEN c
            ELSE after_d(srcCode, a, b, c, store(c, Len(srcCode), INPUT_BUFFER_CHARS_ADDR))
        after_b(srcCode, a, b) ==
            IF Thrown(b) THEN b
            ELSE after_c(srcCode, a, b, store(b, 0, TO_IN_ADDR))
        after_a(srcCode, a) ==
            IF Thrown(a) THEN a
            ELSE after_b(srcCode, a, FillLoop(a, Len(srcCode), INPUT_BUFFER_SIZE))
        after_srcCode(srcCode) ==
            after_a(srcCode, CopyLoop(m, srcCode, 0, Len(srcCode)))
    IN  after_srcCode(SrcCode(text))

\* How one pass through the loop of runInterpreter ends: "loop" (the loop
\* goes round), "ok" or "abort" (a break: runInterpreter returns), "throw"
\* (an exception leaves runInterpreter), "hang" (a call never returns) or
\* "beyond" (a cell read is not a number of the model).
Outcome(m, how) ==
    IF m.err = Diverges THEN [m |-> m, how |-> "hang", msg |-> NoErr]
    ELSE IF m.err = Beyond THEN [m |-> m, how |-> "beyond", msg |-> NoErr]
    ELSE IF Thrown(m) THEN [m |-> [m EXCEPT !.err = NoErr], how |-> "throw", msg |-> m.err]
    ELSE [m |-> m, how |-> how, msg |-> NoErr]

\* the break after abort(message): the message is kept with the outcome
Aborted(m, message) ==
    LET after_r(r) ==
            IF r.how = "abort" THEN [r EXCEPT !.msg = message] ELSE r
    IN  after_r(Outcome(Call(m, "abort", message), "abort"))

\* No more words: the end of the line
endOfLine(m) ==
    LET after_e(d, e) ==
            IF Thrown(e) THEN Outcome(e, "throw")
            ELSE Outcome(CR(e), "ok")
        after_d(d) ==
            IF Thrown(d) THEN Outcome(d, "throw")
            ELSE after_e(d, Call(d, "typeText", MsgOk))
    IN  after_d(SPACE(DROP(DROP(m))))

\* Word found: the try block, with execute = !isCompiling || flag === 1
wordFound(m, execute) ==
    LET after_g(g) ==
            IF Thrown(g) /\ g.err \notin {Diverges, Beyond}
            THEN Aborted([g EXCEPT !.err = NoErr], g.err)
            ELSE Outcome(g, "loop")
    IN  after_g(IF execute THEN Call(m, "EXECUTE", 0) ELSE Call(m, "COMPILE_COMMA", 0))

\* The number is compiled: cellRTS and the number
compileNumber(m) ==
    LET after_n(k, l, n) ==
            IF Thrown(n) THEN Outcome(n, "throw")
            ELSE Outcome(Call(push(n, k.v), "COMMA", 0), "loop")
        after_l(k, l) ==
            IF Thrown(l) THEN Outcome(l, "throw")
            ELSE after_n(k, l, Call(push(l, 100000 * (l.v + 8) + NATIVE_XT_ADDR + 6), "COMMA", 0))
        after_k(k) ==
            IF Thrown(k) THEN Outcome(k, "throw")
            ELSE after_l(k, pop(HERE(k)))
    IN  after_k(pop(m))

\* Word not found. Try number
wordNotFound(m, isCompiling) ==
    LET after_j(g, h, i, j) ==
            IF Thrown(j) THEN Outcome(j, "throw")
            ELSE IF i.v # 0 THEN Aborted(DROP(j), MsgUnknown)
            ELSE IF isCompiling THEN Call(j, "compileNumber", 0)
            ELSE Outcome(j, "loop")
        after_i(g, h, i) ==
            IF Thrown(i) THEN Outcome(i, "throw")
            ELSE after_j(g, h, i, DROP(i))
        after_h(g, h) ==
            IF Thrown(h) THEN Outcome(h, "throw")
            ELSE after_i(g, h, pop(h))
        after_g(g) ==
            IF Thrown(g) THEN Outcome(g, "throw")
            ELSE after_h(g, Call(g, "TO_NUMBER", 0))
    IN  after_g(COUNT(POD(push(DROP(m), 0))))

\* The search of the dictionary for the name parsed, and what follows it
lookup(m, isCompiling) ==
    LET after_f(d, e, f) ==
            IF Thrown(f) THEN Outcome(f, "throw")
            ELSE IF f.v # 0 THEN Call(f, "wordFound", ~isCompiling \/ f.v = 1)
            ELSE Call(f, "wordNotFound", isCompiling)
        after_e(d, e) ==
            IF Thrown(e) THEN Outcome(e, "throw")
            ELSE after_f(d, e, pop(e))
        after_d(d) ==
            IF Thrown(d) THEN Outcome(d, "throw")
            ELSE after_e(d, Call(d, "FIND", 0))
    IN  after_d(Call(POD(m), "TO_UPPERCASE", 0))

\* One pass through the body of while (true) in runInterpreter
runInterpreter(m) ==
    LET after_c(a, b, c) ==
            IF Thrown(c) THEN Outcome(c, "throw")
            ELSE IF c.v = 0 THEN Call(c, "endOfLine", 0)
            ELSE Call(c, "lookup", a.v # 0)
        after_b(a, b) ==
            IF Thrown(b) THEN Outcome(b, "throw")
            ELSE after_c(a, b, pop(DUP(b)))
        after_a(a) ==
            IF Thrown(a) THEN Outcome(a, "throw")
            ELSE after_b(a, Call(a, "PARSE_NAME", 0))
    IN  after_a(fetch(m, STATE_ADDR))

\* ------------------------------------------------------------------------
\* Calls
\* ------------------------------------------------------------------------
\* The call f() of a function of the interpreter, or f(arg) of one that
\* takes an argument; _wordMap[rts](pfa) is Call(m, wordMap[rts], pfa).
Call(m, f, arg) ==
    CASE f = "variableRTS"   -> variableRTS(m, arg)
      [] f = "constantRTS"   -> constantRTS(m, arg)
      [] f = "valueRTS"      -> valueRTS(m, arg)
      [] f = "nestRTS"       -> nestRTS(m, arg)
      [] f = "unNestRTS"     -> unNestRTS(m, arg)
      [] f = "nextRTS"       -> nextRTS(m, arg)
      [] f = "cellRTS"       -> cellRTS(m, arg)
      [] f = "SUM"           -> SUM(m)
      [] f = "MINUS"         -> MINUS(m)
      [] f = "EQUALS"        -> EQUALS(m)
      [] f = "ZERO_EQUALS"   -> ZERO_EQUALS(m)
      [] f = "TRUE"          -> W_TRUE(m)
      [] f = "FALSE"         -> W_FALSE(m)
      [] f = "DROP"          -> DROP(m)
      [] f = "DUP"           -> DUP(m)
      [] f = "QUESTION_DUP"  -> QUESTION_DUP(m)
      [] f = "PICK"          -> W_PICK(m)
      [] f = "OVER"          -> OVER(m)
      [] f = "SWAP"          -> SWAP(m)
      [] f = "NIP"           -> NIP(m)
      [] f = "ROT"           -> ROT(m)
      [] f = "TUCK"          -> TUCK(m)
      [] f = "DEPTH"         -> DEPTH(m)
      [] f = "R_FROM"        -> R_FROM(m)
      [] f = "TO_R"          -> TO_R(m)
      [] f = "R_FETCH"       -> R_FETCH(m)
      [] f = "HERE"          -> HERE(m)
      [] f = "POD"           -> POD(m)
      [] f = "CREATE"        -> CREATE(m)
      [] f = "VARIABLE"      -> W_VARIABLE(m)
      [] f = "CONSTANT"      -> W_CONSTANT(m)
      [] f = "VALUE"         -> VALUE(m)
      [] f = "TO"            -> TO(m)
      [] f = "CHARS"         -> CHARS(m)
      [] f = "CELLS"         -> CELLS(m)
      [] f = "ALIGNED"       -> ALIGNED(m)
      [] f = "ALIGN"         -> ALIGN(m)
      [] f = "ALLOT"         -> ALLOT(m)
      [] f = "COMMA"         -> COMMA(m)
      [] f = "FETCH"         -> FETCH(m)
      [] f = "STORE"         -> STORE(m)
      [] f = "C_COMMA"       -> C_COMMA(m)
      [] f = "C_FETCH"       -> C_FETCH(m)
      [] f = "C_STORE"       -> C_STORE(m)
      [] f = "COUNT"         -> COUNT(m)
      [] f = "EMIT"          -> EMIT(m)
      [] f = "TYPE"          -> TYPE(m)
      [] f = "TO_IN"         -> TO_IN(m)
      [] f = "SOURCE"        -> SOURCE(m)
      [] f = "PARSE"         -> PARSE(m)
      [] f = "PARSE_NAME"    -> PARSE_NAME(m)
      [] f = "WORD"          -> WORD(m)
      [] f = "S_QUOTE"       -> S_QUOTE(m)
      [] f = "C_QUOTE"       -> C_QUOTE(m)
      [] f = "DOT_QUOTE"     -> DOT_QUOTE(m)
      [] f = "COMPARE"       -> COMPARE(m)
      [] f = "FIND"          -> FIND(m)
      [] f = "C_MOVE"        -> C_MOVE(m)
      [] f = "TO_NUMBER"     -> TO_NUMBER(m)
      [] f = "TO_UPPERCASE"  -> TO_UPPERCASE(m)
      [] f = "TICK"          -> TICK(m)
      [] f = "EXECUTE"       -> EXECUTE(m)
      [] f = "COMPILE_COMMA" -> COMPILE_COMMA(m)
      [] f = "EVALUATE"      -> EVALUATE(m)
      [] f = "TO_BODY"       -> TO_BODY(m)
      [] f = "CHAR"          -> CHAR(m)
      [] f = "BL"            -> BL(m)
      [] f = "CR"            -> CR(m)
      [] f = "DOT"           -> DOT(m)
      [] f = "DOT_S"         -> DOT_S(m)
      [] f = "SPACE"         -> SPACE(m)
      [] f = "ABORT"         -> ABORT(m)
      [] f = "QUIT"          -> QUIT(m)
      [] f = "STATE"         -> W_STATE(m)
      [] f = "RIGHT_BRACKET" -> RIGHT_BRACKET(m)
      [] f = "LEFT_BRACKET"  -> LEFT_BRACKET(m)
      [] f = "COLON"         -> COLON(m)
      [] f = "SEMICOLON"     -> SEMICOLON(m)
      [] f = "IMMEDIATE"     -> IMMEDIATE(m)
      [] f = "typeText"      -> typeText(m, arg)
      [] f = "typeParsedWord"-> typeParsedWord(m)
      [] f = "abort"         -> abort(m, arg)
      [] f = "endOfLine"     -> endOfLine(m)
      [] f = "wordFound"     -> wordFound(m, arg)
      [] f = "compileNumber" -> compileNumber(m)
      [] f = "wordNotFound"  -> wordNotFound(m, arg)
      [] f = "lookup"        -> lookup(m, arg)
      [] f = "addWords"      -> addWords(m)
      [] f = "runInterpreter"-> runInterpreter(m)

\* The machine as the constructor leaves it: the value of the last read is
\* not part of it
Image(m) == [m EXCEPT !.mem = Canon(m.mem), !.v = 0]

\* forth(write): a zeroed buffer, the three pointers, then addWords()
forth ==
    Image(Call([mem |-> [a \in {} |-> FCell(0)], S |-> DATA_STACK_ADDR,
                R |-> RET_STACK_ADDR, DS |-> DSP_START_ADDR,
                out |-> <<>>, err |-> NoErr, v |-> 0], "addWords", 0))

RECURSIVE RunLoop(_, _)
\* runInterpreter to its end, within a number of passes
RunLoop(r, fuel) ==
    IF r.how # "loop" \/ fuel = 0 THEN r
    ELSE RunLoop(runInterpreter(r.m), fuel - 1)

\* ------------------------------------------------------------------------
\* Bounds and the lines of a session
\* ------------------------------------------------------------------------
\* the number of interpret calls in a session
MaxCalls == 2

\* the passes a whole-line run may take
MaxPasses == 40

L_empty == <<>>
    \* ''
L_head == <<49,48,48,48,49,32,57,54,32,33,32,49>>
    \* '10001 96 ! 1'
L_rewind == <<48,32,62,73,78,32,33>>
    \* '0 >IN !'
L_fortytwo == <<58,32,102,111,114,116,121,116,119,111,32,50,49,32,68,85,80,32,43,32,59,32,32,32,102,111,114,116,121,116,119,111>>
    \* ': fortytwo 21 DUP + ;   fortytwo'
L_tick == <<39,32,102,111,114,116,121,116,119,111,32,69,88,69,67,85,84,69>>
    \* "' fortytwo EXECUTE"
L_body == <<50,49,32,68,85,80,32,43>>
    \* '21 DUP +'
L_depth == <<52,50,32,52,51,32,68,69,80,84,72>>
    \* '42 43 DEPTH'
L_sq == <<58,32,115,113,32,68,85,80,32,42,32,59,32,32,32,54,32,115,113>>
    \* ': sq DUP * ;   6 sq'
L_foo == <<49,32,102,111,111,32,50>>
    \* '1 foo 2'
L_dot == <<55,32,46,32,46>>
    \* '7 . .'
L_colonfoo == <<58,32,120,32,49,32,102,111,111>>
    \* ': x 1 foo'
L_abort == <<49,32,62,82,32,50,32,65,66,79,82,84,32,51>>
    \* '1 >R 2 ABORT 3'
L_quit == <<49,32,62,82,32,50,32,81,85,73,84,32,51>>
    \* '1 >R 2 QUIT 3'
L_defs == <<53,32,67,79,78,83,84,65,78,84,32,99,32,86,65,82,73,65,66,76,69,32,118,32,55,32,86,65,76,85,69,32,117,32,67,82,69,65,84,69,32,107,32,58,32,119,32,52,50,32,59,32,102,111,111>>
    \* '5 CONSTANT c VARIABLE v 7 VALUE u CREATE k : w 42 ; foo'
L_use == <<99,32,117,32,119,32,118,32,107>>
    \* 'c u w v k'
L_cycle == <<45,52,56,32,65,76,76,79,84,32,67,82,69,65,84,69,32,120,32,121>>
    \* '-48 ALLOT CREATE x y'

L_to == <<51,32,86,65,76,85,69,32,118,32,52,32,84,79,32,118,32,118>>
    \* '3 VALUE v 4 TO v v'

L_store == <<55,32,49,48,48,48,49,32,33>>
    \* '7 10001 !'

L_redef == <<58,32,97,32,49,32,59,32,58,32,98,32,97,32,59,32,58,32,97,32,50,32,59,32,98,32,97>>
    \* ': a 1 ; : b a ; : a 2 ; b a'

Lines == {L_empty, L_head, L_rewind, L_fortytwo, L_tick,
          L_body, L_depth, L_sq, L_foo, L_dot,
          L_colonfoo, L_abort, L_quit, L_defs, L_use,
          L_cycle, L_to, L_store, L_redef}

\* ------------------------------------------------------------------------
\* The state machine
\* ------------------------------------------------------------------------
VARIABLES
    mem,     \* the image
    S,       \* data stack pointer
    R,       \* return stack pointer
    DS,      \* data-space pointer (HERE)
    out,     \* the text the sink has received in the current call
    pc,      \* "idle": no call in progress; "loop": in the loop of
             \* runInterpreter; "hung": in a call that never returns;
             \* "beyond": in a run the model does not follow
    calls,   \* the number of interpret calls made
    text,    \* the argument of the last interpret call
    ret,     \* how the last call of the interface ended
    msg,     \* the message of the last error caught or thrown
    turn     \* flips with every pass of the loop of runInterpreter

vars == <<mem, S, R, DS, out, pc, calls, text, ret, msg, turn>>

\* the interpreter as a machine record
M == [mem |-> mem, S |-> S, R |-> R, DS |-> DS, out |-> out, err |-> NoErr, v |-> 0]

Becomes(m) ==
    /\ mem' = Canon(m.mem)
    /\ S'   = m.S
    /\ R'   = m.R
    /\ DS'  = m.DS
    /\ out' = m.out

\* the interpreter is in the state of the machine m
Is(m) ==
    /\ mem = m.mem
    /\ S   = m.S
    /\ R   = m.R
    /\ DS  = m.DS

Init ==
    /\ Is(forth)
    /\ out   = <<>>
    /\ pc    = "idle"
    /\ calls = 0
    /\ text  = <<>>
    /\ ret   = "none"
    /\ msg   = NoErr
    /\ turn  = FALSE

\* interpret(line) is called: the line is copied and echoed
Interpret ==
    /\ pc = "idle"
    /\ calls < MaxCalls
    /\ \E line \in Lines :
          /\ Becomes(interpret([M EXCEPT !.out = <<>>], line))
          /\ text' = line
    /\ pc'    = "loop"
    /\ calls' = calls + 1
    /\ ret'   = "none"
    /\ msg'   = NoErr
    /\ turn'  = turn

\* What a pass of the loop leaves: the loop goes round ("loop"); interpret
\* returns after the end of the line or an abort ("ok", "abort"); the
\* exception of a throw outside the try block leaves interpret ("throw");
\* the pass is in a search of the dictionary that never ends ("hang"); the
\* pass reads a cell that is not a number of the model ("beyond").
PassEnds(r) ==
    /\ pc'  = CASE r.how = "loop"   -> "loop"
                [] r.how = "hang"   -> "hung"
                [] r.how = "beyond" -> "beyond"
                [] OTHER            -> "idle"
    /\ ret' = IF r.how \in {"loop", "hang", "beyond"} THEN ret ELSE r.how
    /\ msg' = IF r.how \in {"loop", "hang", "beyond"} THEN msg ELSE r.msg
    /\ IF r.how \in {"hang", "beyond"}
       THEN UNCHANGED <<mem, S, R, DS, out>>
       ELSE Becomes(r.m)

\* one pass of the loop of runInterpreter
Pass ==
    /\ pc = "loop"
    /\ PassEnds(Call(M, "runInterpreter", 0))
    /\ turn' = ~turn
    /\ UNCHANGED <<calls, text>>

\* What pop() of the interface leaves
PopEnds(a) ==
    /\ a.err # Beyond
    /\ IF Thrown(a)
       THEN /\ ret' = "underflow"
            /\ msg' = a.err
            /\ UNCHANGED <<mem, S, R, DS, out>>
       ELSE /\ ret' = "popped"
            /\ msg' = NoErr
            /\ Becomes(a)

\* pop() of the interface, between calls
Pop ==
    /\ pc = "idle"
    /\ PopEnds(pop(M))
    /\ UNCHANGED <<pc, calls, text, turn>>

Next ==
    \/ Interpret
    \/ Pass
    \/ Pop

Spec == Init /\ [][Next]_vars

\* a pass is made: every pass of the loop flips turn, and nothing else does
Turn == pc = "loop" /\ turn' = ~turn

\* The loop of runInterpreter runs on: a call that is in the loop makes its
\* next pass (Pass is enabled in every state with pc = "loop").
FairSpec == Spec /\ WF_turn(Turn)

\* ------------------------------------------------------------------------
\* Observations
\* ------------------------------------------------------------------------
\* the interpreter after the step, as a machine record
MNext == [mem |-> mem', S |-> S', R |-> R', DS |-> DS', out |-> out', err |-> NoErr, v |-> 0]

\* the number in a cell of the image
NumberAt(m, aAddr) == CellNum(CellAt(m.mem, aAddr))

\* the cells of the data stack, the bottom first
StackOf(m) ==
    [i \in 1 .. ((m.S - DATA_STACK_ADDR) \div 8) |->
        CellBytes(CellAt(m.mem, DATA_STACK_ADDR + 8 * (i - 1)))]

\* the cell on top of the data stack
TopOf(m) == NumberAt(m, m.S - 8)

\* the cells from address lo up to address hi
Region(m, lo, hi) ==
    [a \in {x \in lo .. (hi - 1) : x % 8 = 0} |-> CellBytes(CellAt(m.mem, a))]

\* the dictionary: the cells of the data space from DSP_START_ADDR to HERE
\* that are not zero
Dictionary(m) ==
    [a \in {x \in DOMAIN Canon(m.mem) : x >= DSP_START_ADDR /\ x < m.DS} |-> m.mem[a]]

\* the ways a call of interpret ends
Returns == {"ok", "abort", "throw"}

\* interpret(line) from the machine m, to its end within MaxPasses passes
RunLine(m, line) ==
    RunLoop(Outcome(interpret([m EXCEPT !.out = <<>>], line), "loop"), MaxPasses)

\* the word typeParsedWord types: the token parsed last
ParsedWord(m) == Call([m EXCEPT !.out = <<>>], "typeParsedWord", 0).out

\* The header FIND finds for a name, 0 when it finds none
Lookup(m, name) ==
    LET a == TextLoop(m, name, POD_ADDR, 0, Len(name))
        w == IF Readable(CellAt(m.mem, CURRENT_DEF_ADDR))
             THEN FindLoop(a, NumberAt(m, CURRENT_DEF_ADDR), POD_ADDR + 1, Len(name))
             ELSE [how |-> "beyond", at |-> 0, seen |-> {}]
    IN  IF w.how = "hit" THEN w.at ELSE 0

RECURSIVE EndOf(_, _, _, _, _)
\* Where the definition with header nfa ends: the header of the definition
\* made after it, HERE when it is the last one
EndOf(m, nfa, at, newer, fuel) ==
    IF at = nfa \/ at <= 0 \/ fuel = 0 \/ at % 8 # 0 \/ ~InMemory(at + 32) THEN newer
    ELSE IF ~Readable(CellAt(m.mem, at + 32)) THEN newer
    ELSE EndOf(m, nfa, NumberAt(m, at + 32), at, fuel - 1)

\* the cells of the definition with header nfa: header, XT and parameter field
Definition(m, nfa) ==
    [lo |-> nfa,
     hi |-> EndOf(m, nfa, NumberAt(m, CURRENT_DEF_ADDR), m.DS, (MEMORY_SIZE \div 8) + 1)]

\* the names of the definitions the lines make
N_c == <<67>>
N_v == <<86>>
N_u == <<85>>
N_k == <<75>>
N_w == <<87>>
N_fortytwo == <<70,79,82,84,89,84,87,79>>

UserNames == {N_c, N_v, N_u, N_k, N_w, N_fortytwo}

\* a definition the user has made: its header lies above the built-in words
UserDefined(nfa) == nfa >= forth.DS

\* what a search of the dictionary reads: the head cell and the data space
Searched(m) ==
    [a \in {x \in DOMAIN m.mem : x >= DSP_START_ADDR \/ x = CURRENT_DEF_ADDR} |-> m.mem[a]]

\* The step keeps the definition found for the name, or a newer definition
\* of the name shadows it
Persists(name) ==
    LET nfa == Lookup(M, name)
        now == Lookup(MNext, name)
        d   == Definition(M, nfa)
    IN  UserDefined(nfa) =>
            \/ now = nfa /\ Region(MNext, d.lo, d.hi) = Region(M, d.lo, d.hi)
            \/ now > nfa

\* the step keeps every definition of the user (a step that leaves what a
\* search reads as it is keeps them all)
AllPersist == Searched(MNext) = Searched(M) \/ \A name \in UserNames : Persists(name)

\* the lines that store into the head cell or give dictionary space back
Clobbering == {L_head, L_cycle}

\* the lines that store a new value into the parameter field of a definition
Storing == {L_to}

\* What ABORT leaves of the machine m
AbortEffect(m) ==
    LET a == Call(m, "ABORT", 0)
    IN  /\ ~Thrown(a)
        /\ a.S = DATA_STACK_ADDR
        /\ a.R = RET_STACK_ADDR
        /\ NumberAt(a, STATE_ADDR) = 0
        /\ NumberAt(a, TO_IN_ADDR) = 0
        /\ NumberAt(a, INPUT_BUFFER_CHARS_ADDR) = 0
        /\ CellAt(a.mem, CURRENT_DEF_ADDR) = CellAt(m.mem, CURRENT_DEF_ADDR)
        /\ a.DS = m.DS
        /\ Dictionary(a) = Dictionary(m)

\* What QUIT leaves of the machine m
QuitEffect(m) ==
    LET a == Call(m, "QUIT", 0)
    IN  /\ ~Thrown(a)
        /\ a.S = m.S
        /\ StackOf(a) = StackOf(m)
        /\ a.R = RET_STACK_ADDR
        /\ NumberAt(a, STATE_ADDR) = 0
        /\ NumberAt(a, TO_IN_ADDR) = 0
        /\ NumberAt(a, INPUT_BUFFER_CHARS_ADDR) = 0
        /\ CellAt(a.mem, CURRENT_DEF_ADDR) = CellAt(m.mem, CURRENT_DEF_ADDR)
        /\ a.DS = m.DS
        /\ Dictionary(a) = Dictionary(m)

\* the terminator the sink is due at the end of the call
Terminator ==
    IF ret = "ok" THEN <<32>> \o MsgOk \o <<10>>
    ELSE ParsedWord(M) \o <<32>> \o msg \o <<10>>

\* the text s ends with the text t
EndsWith(s, t) ==
    Len(s) >= Len(t) /\ SubSeq(s, Len(s) - Len(t) + 1, Len(s)) = t

\* the text s starts with the text t
StartsWith(s, t) == Len(s) >= Len(t) /\ SubSeq(s, 1, Len(t)) = t

\* the lines that execute a colon definition and no word of the return stack
ColonLines == {L_fortytwo, L_tick, L_use}

\* ------------------------------------------------------------------------
\* Properties
\* ------------------------------------------------------------------------
\* C1: every call of interpret returns normally: no call ends with an
\* exception that leaves interpret.
C1_ReturnsNormally == ret # "throw"

\* C2: every call of interpret terminates: a call in the loop of
\* runInterpreter comes to its return (or leaves the numbers of the model).
C2_Terminates == (pc = "loop") ~> (pc \in {"idle", "beyond"})

\* C3: executing a colon definition performs its body in the order
\* compiled: from any state between calls, the line that defines fortytwo
\* as 21 DUP + and executes it, and the line that executes fortytwo through
\* its XT, leave the data stack that the line 21 DUP + leaves.
C3_BodyInOrder ==
    pc = "idle" =>
        LET body   == RunLine(M, L_body)
            byName == RunLine(M, L_fortytwo)
            byXT   == RunLine(byName.m, L_tick)
        IN  /\ (body.how = "ok" /\ byName.how = "ok")
                => StackOf(byName.m) = StackOf(body.m)
            /\ (body.how = "ok" /\ byName.how = "ok" /\ byXT.how = "ok")
                => StackOf(byXT.m) = StackOf(RunLine(body.m, L_body).m)

\* C4: executing a colon definition to completion leaves R as it was: no
\* pass of a line that executes colon definitions, and that goes on to the
\* next token or to the end of the line, changes R.
C4_ReturnStackBalanced ==
    [][(pc = "loop" /\ text \in ColonLines /\ (pc' = "loop" \/ ret' = "ok"))
            => R' = R]_vars

\* C5: DEPTH pushes the number of cells that were on the data stack: in
\* every state, DEPTH leaves one more cell, and that cell holds the number
\* of cells the stack had.
C5_DepthCounts ==
    LET d == DEPTH(M)
    IN  /\ ~Thrown(d)
        /\ d.S = S + 8
        /\ TopOf(d) = (S - DATA_STACK_ADDR) \div 8

\* C6: the token * is a defined word that multiplies: the call of
\* : sq DUP * ;   6 sq  returns after the end of the line with 36 on top.
C6_StarMultiplies ==
    (pc = "idle" /\ text = L_sq /\ ret \in Returns)
        => (ret = "ok" /\ S > DATA_STACK_ADDR /\ TopOf(M) = 36)

\* C7: the pass in which a token is unknown, or in which an executed or
\* compiled word raises an error, is the last pass of the call (no later
\* token is executed or compiled), and it leaves both stacks empty, STATE
\* 0, >IN 0 and the character count 0.
C7_AbortResets ==
    [][(pc = "loop" /\ ret' = "abort")
            => /\ pc' = "idle"
               /\ S' = DATA_STACK_ADDR
               /\ R' = RET_STACK_ADDR
               /\ NumberAt(MNext, STATE_ADDR) = 0
               /\ NumberAt(MNext, TO_IN_ADDR) = 0
               /\ NumberAt(MNext, INPUT_BUFFER_CHARS_ADDR) = 0
               /\ EndsWith(out', ParsedWord(MNext) \o <<32>> \o msg' \o <<10>>)]_vars

\* C7 happens: a call that found fortytwo defined and both stacks in use has
\* ended in the abort of an unknown token met while compiling
C7_Witness ==
    /\ pc = "idle" /\ ret = "abort" /\ text = L_colonfoo /\ msg = MsgUnknown
    /\ calls = 2 /\ Lookup(M, N_fortytwo) # 0

\* C8: at the end of every call of interpret the sink has received the echo
\* of the input buffer first and one terminator last: space, ok, newline
\* after a line without error, otherwise the token parsed last, a space,
\* the error message and a newline.
C8_OneTerminator ==
    (pc = "idle" /\ ret \in Returns)
        => /\ StartsWith(out, SrcCode(text))
           /\ Len(out) >= Len(SrcCode(text)) + Len(Terminator)
           /\ EndsWith(out, Terminator)
           /\ (ret # "ok") => ~EndsWith(out, <<32>> \o MsgOk \o <<10>>)

\* C9: in every state, ABORT empties both stacks, sets STATE, >IN and the
\* character count to 0 and leaves the head cell, HERE and the dictionary
\* as they are; QUIT does the same but leaves the data stack as it is.
C9_AbortAndQuit == AbortEffect(M) /\ QuitEffect(M)

\* C9 happens: the line 1 >R 2 ABORT 3 is past its ABORT, which has left
\* both stacks empty and no character to read
C9_Witness ==
    /\ pc = "loop" /\ text = L_abort
    /\ S = DATA_STACK_ADDR /\ R = RET_STACK_ADDR
    /\ NumberAt(M, INPUT_BUFFER_CHARS_ADDR) = 0

Cells(m) == (m.S - DATA_STACK_ADDR) \div 8

\* words and the cells each takes from the data stack
Takers ==
    { <<"DROP", 1>>, <<"DUP", 1>>, <<"QUESTION_DUP", 1>>, <<"PICK", 1>>,
      <<"OVER", 2>>, <<"SWAP", 2>>, <<"NIP", 2>>, <<"ROT", 3>>, <<"TUCK", 2>>,
      <<"SUM", 2>>, <<"MINUS", 2>>, <<"EQUALS", 2>>, <<"ZERO_EQUALS", 1>>,
      <<"TO_R", 1>>, <<"STORE", 2>>, <<"FETCH", 1>>, <<"C_STORE", 2>>,
      <<"C_FETCH", 1>>, <<"ALLOT", 1>>, <<"EMIT", 1>>, <<"DOT", 1>>, <<"TYPE", 2>> }

\* a machine that has signalled the underflow with its pointers at or above
\* the bases
Underflowed(a) ==
    a.err = MsgStackUnderflow /\ a.S >= DATA_STACK_ADDR /\ a.R >= RET_STACK_ADDR

HeaderStep(m, w) ==
    IF w.at <= 0 \/ w.at % 8 # 0 \/ ~InMemory(w.at + 40)
    THEN [w EXCEPT !.on = FALSE]
    ELSE IF \E k \in 1 .. Len(w.hs) : w.hs[k] = w.at
    THEN [w EXCEPT !.on = FALSE]
    ELSE IF ~Readable(CellAt(m.mem, w.at + 32))
    THEN [w EXCEPT !.on = FALSE, !.hs = Append(w.hs, w.at)]
    ELSE [at |-> NumberAt(m, w.at + 32), hs |-> Append(w.hs, w.at), on |-> TRUE]

RECURSIVE Headers(_, _, _)
\* up to n steps along the link chain
Headers(m, w, n) ==
    IF ~w.on \/ n = 0 THEN w
    ELSE IF n = 1 THEN HeaderStep(m, w)
    ELSE Headers(m, Headers(m, w, n \div 2), n - (n \div 2))

\* the headers of the dictionary, the newest first
Dict(m) ==
    IF Readable(CellAt(m.mem, CURRENT_DEF_ADDR))
    THEN Headers(m, [at |-> NumberAt(m, CURRENT_DEF_ADDR), hs |-> <<>>, on |-> TRUE],
                 MEMORY_SIZE \div 8).hs
    ELSE <<>>

\* the name in a header
NameOf(m, nfa) == [i \in 1 .. cFetch(m, nfa) |-> cFetch(m, nfa + i)]

\* the flags in a header
IsHidden(m, nfa)    == HasBit(cFetch(m, nfa + 31), Hidden)
IsImmediate(m, nfa) == HasBit(cFetch(m, nfa + 31), Immediate)

\* the machine with the counted string of a name at POD_ADDR
Named(m, name) ==
    TextLoop(cStore(m, Len(name), POD_ADDR), name, POD_ADDR, 0, Len(name))

\* FIND of the counted string of a name
Find(m, name) == Call(push(Named(m, name), POD_ADDR), "FIND", 0)

\* the cell below the top of the data stack
SecondOf(m) == NumberAt(m, m.S - 16)

\* the names searched for: of definitions of the lines, of built-in words
\* (DUP, and ; which is immediate), the empty name, and a name never defined
N_x    == <<88>>
N_dup  == <<68,85,80>>
N_semi == <<59>>
N_none == <<78,79,80,69>>

Probes == {N_c, N_fortytwo, N_x, N_dup, N_semi, N_none, <<>>}

\* the places among the headers hs of the visible headers with the name
Hits(m, hs, name) ==
    {k \in 1 .. Len(hs) : /\ cFetch(m, hs[k]) = Len(name)
                          /\ ~IsHidden(m, hs[k])
                          /\ NameOf(m, hs[k]) = name}

\* the first of a set of places
First(ks) == CHOOSE k \in ks : \A j \in ks : k <= j

\* What FIND has to leave for the name, hs being the headers and ks the
\* places of the visible headers with the name
FoundAs(m, f, hs, ks) ==
    ~Thrown(f) =>
        /\ f.S = m.S + 16
        /\ IF ks = {}
           THEN TopOf(f) = 0 /\ SecondOf(f) = POD_ADDR
           ELSE /\ SecondOf(f) = NumberAt(m, hs[First(ks)] + 40)
                /\ TopOf(f) = IF IsImmediate(m, hs[First(ks)]) THEN 1 ELSE -1

Found(m, hs, name) == FoundAs(m, Find(m, name), hs, Hits(m, hs, name))

\* every name searched for is found as it has to be
AllFound(m, hs) == \A name \in Probes : Found(m, hs, name)

\* C12: in every state, a FIND that returns leaves the XT of the newest
\* header that is not hidden and has the name searched for, with 1 when
\* that header is immediate and -1 when it is not; when no such header is
\* there (for the empty name of the hidden runtimes too) it leaves the
\* address of the counted string and 0.
C12_FindNewestVisible == AllFound(M, Dict(M))

\* the dictionary holds two visible definitions of fortytwo, and a hidden
\* header whose name, the empty one, is searched for
HasShadowed(m, hs) ==
    /\ Cardinality(Hits(m, hs, N_fortytwo)) = 2
    /\ \E k \in 1 .. Len(hs) : IsHidden(m, hs[k]) /\ NameOf(m, hs[k]) = <<>>

\* C12 happens: a newer definition shadows an older one of its name, and a
\* hidden header has a name searched for
C12_Witness == HasShadowed(M, Dict(M))

\* ------------------------------------------------------------------------
\* C13
\* ------------------------------------------------------------------------
\* the letter of the other case, for a letter; the character itself otherwise
Upper(c) == IF 96 < c /\ c < 123 THEN c - 32 ELSE c
Lower(c) == IF 64 < c /\ c < 91 THEN c + 32 ELSE c

\* two tokens are equal up to the case of their ASCII letters
SameUpToCase(s, t) ==
    Len(s) = Len(t) /\ \A i \in 1 .. Len(s) : Upper(s[i]) = Upper(t[i])

\* spellings of a name: in capitals, in small letters, and with the two
\* alternating
Spellings(name) ==
    { [i \in 1 .. Len(name) |-> Upper(name[i])],
      [i \in 1 .. Len(name) |-> Lower(name[i])],
      [i \in 1 .. Len(name) |-> IF i % 2 = 0 THEN Upper(name[i]) ELSE Lower(name[i])] }

\* names typed after a defining word: 'Abc', and names of 30 and of 31
\* characters
T_abc  == <<65,98,99>>
T_30   == <<97,98,99,100,101,102,103,104,105,106,107,108,109,110,111,112,113,114,115,116,117,118,119,120,121,122,45,97,98,99>>
T_31   == <<97,98,99,100,101,102,103,104,105,106,107,108,109,110,111,112,113,114,115,116,117,118,119,120,121,122,45,97,98,99,100>>

\* the line 'CREATE name'
CreateLine(typed) == <<67,82,69,65,84,69,32>> \o typed

\* The outer interpreter up to its lookup of the first token of a line:
\* PARSE_NAME, POD, TO_UPPERCASE and FIND of runInterpreter
Resolve(m, tok) == Call(Call(POD(Call(interpret(m, tok), "PARSE_NAME", 0)), "TO_UPPERCASE", 0), "FIND", 0)

\* ' with the token next in the input
Tick(m, tok) == Call(interpret(m, tok), "TICK", 0)

\* the lookup f of the outer interpreter finds the definition with header nfa
FindsIt(m, f, nfa) ==
    ~Thrown(f) /\ f.S = m.S + 16 /\ TopOf(f) # 0 /\ SecondOf(f) = NumberAt(m, nfa + 40)

\* the ' t leaves the XT of the definition with header nfa
TicksIt(m, t, nfa) ==
    ~Thrown(t) /\ t.S = m.S + 8 /\ TopOf(t) = NumberAt(m, nfa + 40)

\* every spelling of a name resolves to the definition with header nfa
ResolvedAs(m, name, nfa) ==
    \A tok \in Spellings(name) :
        /\ SameUpToCase(tok, name)
        /\ FindsIt(m, Resolve(m, tok), nfa)
        /\ TicksIt(m, Tick(m, tok), nfa)

\* a name known in the dictionary hs resolves to its newest visible definition
KnownAs(m, hs, ks, name) == ks # {} => ResolvedAs(m, name, hs[First(ks)])

KnownResolved(m, hs, name) == KnownAs(m, hs, Hits(m, hs, name), name)

\* the definition that the line 'CREATE typed' has just made, when the
\* line ended with ok, is the head of the dictionary, and every spelling of
\* its name resolves to it
CreatedAs(r, typed) ==
    r.how = "ok" => ResolvedAs(r.m, typed, NumberAt(r.m, CURRENT_DEF_ADDR))

CreatedResolved(m, typed) == CreatedAs(RunLine(m, CreateLine(typed)), typed)

AllResolved(m, hs, typed) ==
    /\ \A name \in {N_dup, N_semi, N_fortytwo} : KnownResolved(m, hs, name)
    /\ \A t \in typed : CreatedResolved(m, t)

\* C13: in every state, every spelling of the name of a visible definition,
\* built-in (DUP, ;), made by a line before (fortytwo) or made now by
\* CREATE with a name of 3, of 30 or of 31 characters, is resolved by the
\* outer interpreter and by ' to the XT of that definition.
C13_CaseInsensitive == AllResolved(M, Dict(M), {T_abc, T_30, T_31})

\* the same for names of at most 30 characters
C13_UpTo30 == AllResolved(M, Dict(M), {T_abc, T_30})

\* ------------------------------------------------------------------------
\* C14
\* ------------------------------------------------------------------------
\* the line "' name >BODY"
BodyLine(typed) == <<39,32>> \o typed \o <<32,62,66,79,68,89>>

\* the line e run after the line c pushes the address a and nothing else
PushesOnly(c, e, a) ==
    e.how = "ok" /\ e.m.S = c.m.S + 8 /\ TopOf(e.m) = a

\* After the line c, 'CREATE typed', has ended with ok: HERE is 48 above the
\* new header, the head of the dictionary; the name pushes that address, and
\* so does ' name >BODY
CreatedAt(c, typed) ==
    c.how = "ok" =>
        /\ c.m.DS = NumberAt(c.m, CURRENT_DEF_ADDR) + 48
        /\ PushesOnly(c, RunLine(c.m, typed), c.m.DS)
        /\ PushesOnly(c, RunLine(c.m, BodyLine(typed)), c.m.DS)

CreatedHere(m, typed) == CreatedAt(RunLine(m, CreateLine(typed)), typed)

\* C14: in every state, after CREATE with a name of 3, of 30 or of 31
\* characters, the name pushes the address HERE has after the CREATE, the
\* new header's address + 48, and ' name >BODY leaves the same address.
C14_CreateHere == \A typed \in {T_abc, T_30, T_31} : CreatedHere(M, typed)

\* the built-in headers are on the link chain, and HERE is above the newest
\* header: no line has stored into the head cell or given dictionary space
\* back
Intact(m, hs) ==
    Len(hs) >= Len(Words) /\ hs[Len(hs)] = DSP_START_ADDR /\ m.DS >= hs[1] + 48

\* the same for names of at most 30 characters in a dictionary left intact
C14_UpTo30 == Intact(M, Dict(M)) => \A typed \in {T_abc, T_30} : CreatedHere(M, typed)

\* ------------------------------------------------------------------------
\* C15
\* ------------------------------------------------------------------------
\* the numbers converted from the fresh interpreter, and the numbers typed in
\* every state
MaxNumber == 300
Typed     == {0 - 907, 0, 42, 65536}

\* the decimal texts of n: its digits after - when it is negative, its
\* digits, and its digits after + when it is not negative
Texts(n) == IF n < 0 THEN {ToDecimal(n)} ELSE {ToDecimal(n), <<43>> \o ToDecimal(n)}

\* the cell third from the top of the data stack
ThirdOf(m) == NumberAt(m, m.S - 24)

\* >NUMBER of a text, as runInterpreter calls it: 0, the counted string at
\* POD_ADDR, COUNT, then TO_NUMBER
Convert(m, t) == Call(COUNT(POD(push(Named(m, t), 0))), "TO_NUMBER", 0)

\* the conversion c of the text t has used up all its characters and left n
ConvertedTo(m, c, t, n) ==
    /\ ~Thrown(c)
    /\ c.S = m.S + 24
    /\ TopOf(c) = 0
    /\ SecondOf(c) = POD_ADDR + 1 + Len(t)
    /\ ThirdOf(c) = n

Converts(m, n) == \A t \in Texts(n) : ConvertedTo(m, Convert(m, t), t, n)

\* the line r, one token, has pushed n and nothing else
PushedOnly(m, r, n) == r.how = "ok" /\ r.m.S = m.S + 8 /\ TopOf(r.m) = n

\* In interpret state a token that is the name of no word (the lookup f
\* returns with 0) is typed as the number n
TypedAs(m, f, t, n) ==
    (NumberAt(m, STATE_ADDR) = 0 /\ ~Thrown(f) /\ TopOf(f) = 0)
        => PushedOnly(m, RunLine(m, t), n)

Types(m, n) == \A t \in Texts(n) : TypedAs(m, Resolve(m, t), t, n)

\* C15: from the fresh interpreter, >NUMBER of each decimal text of each n
\* from -MaxNumber to MaxNumber leaves n, the address after the text and
\* the remaining length 0; and in every state in interpret state, a line
\* that is a decimal text of n, looked up and not found, pushes n and
\* nothing else.
C15_NumberRoundTrip ==
    /\ calls = 0 => \A n \in (0 - MaxNumber) .. MaxNumber : Converts(M, n)
    /\ \A n \in Typed : Converts(M, n) /\ Types(M, n)

\* C15 happens: the line '42 43 DEPTH' has pushed its first token, 42
C15_Witness ==
    pc = "loop" /\ text = L_depth /\ S = DATA_STACK_ADDR + 8 /\ TopOf(M) = 42

\* ------------------------------------------------------------------------
\* C16
\* ------------------------------------------------------------------------
RECURSIVE Shown(_, _, _)
\* the decimal text and a space for each of the cells lo .. hi of the data
\* stack, the bottom cell being cell 1
Shown(m, lo, hi) ==
    IF lo > hi THEN <<>>
    ELSE ToDecimal(NumberAt(m, DATA_STACK_ADDR + 8 * (lo - 1))) \o <<32>> \o Shown(m, lo + 1, hi)

\* '<top'
TopMark == <<60,116,111,112>>

\* d is the machine m after .S has written its stack
DotSWrote(m, d) ==
    /\ ~Thrown(d)
    /\ d.out = m.out \o Shown(m, 1, Cells(m)) \o TopMark
    /\ d.S = m.S
    /\ StackOf(d) = StackOf(m)

\* every cell of the data stack holds a number
AllNumbers(m) ==
    \A i \in 1 .. Cells(m) : Readable(CellAt(m.mem, DATA_STACK_ADDR + 8 * (i - 1)))

\* C16: in every state whose data stack holds numbers, .S writes each cell
\* of the stack from the bottom to the top as its decimal text and a space,
\* then <top, and leaves the data stack as it is.
C16_DotSShows == AllNumbers(M) => DotSWrote(M, Call(M, "DOT_S", 0))

\* ------------------------------------------------------------------------
\* C17
\* ------------------------------------------------------------------------
\* the cell values of the constants and values defined
Values == {0 - 907, 65536}

\* the lines 'x CONSTANT c', 'c c', "' c EXECUTE c", and a line that allots,
\* compiles and defines other names before it executes c:
\* '16 ALLOT 7 , CREATE other 3 C, : d 1 ; 9 CONSTANT e c'
ConstantLine(x) == ToDecimal(x) \o <<32,67,79,78,83,84,65,78,84,32,99>>
L_cc     == <<99,32,99>>
L_tickc  == <<39,32,99,32,69,88,69,67,85,84,69,32,99>>
L_later  == <<49,54,32,65,76,76,79,84,32,55,32,44,32,67,82,69,65,84,69,32,111,116,104,101,114,32,51,32,67,44,32,58,32,100,32,49,32,59,32,57,32,67,79,78,83,84,65,78,84,32,101,32,99>>

\* the line r run from the machine m has pushed x twice, and nothing else
PushedTwice(m, r, x) ==
    r.how = "ok" /\ r.m.S = m.S + 16 /\ TopOf(r.m) = x /\ SecondOf(r.m) = x

\* what a line leaves apart from its text: the stacks, HERE, the state and
\* the dictionary
Left(m) == <<StackOf(m), m.R, m.DS, NumberAt(m, STATE_ADDR), Searched(m)>>

\* The lines run after 'x CONSTANT c': byName is c c, byXT is
\* ' c EXECUTE c and later the line that allots and defines.  Each
\* execution of c pushes x, ' c EXECUTE leaves what c leaves, and c pushes
\* x after the later allocations and definitions.
ConstantRuns(m, x, byName, byXT, later) ==
    /\ PushedTwice(m, byName, x)
    /\ PushedTwice(m, byXT, x)
    /\ Left(byXT.m) = Left(byName.m)
    /\ PushedOnly(m, later, x)

ConstantAfter(d, x) ==
    ConstantRuns(d.m, x, RunLine(d.m, L_cc), RunLine(d.m, L_tickc), RunLine(d.m, L_later))

\* From a machine in interpret state, a line 'x CONSTANT c' that ends with
\* ok defines such a c; and it ends with ok when the dictionary is intact
ConstantAs(m, hs, d, x) ==
    NumberAt(m, STATE_ADDR) = 0 =>
        /\ Intact(m, hs) => d.how = "ok"
        /\ (d.how = "ok" /\ Intact(d.m, Dict(d.m))) => ConstantAfter(d, x)

ConstantDefined(m, hs, x) == ConstantAs(m, hs, RunLine(m, ConstantLine(x)), x)

\* C17: in every state in interpret state with the dictionary intact, for
\* the values x of Values, after 'x CONSTANT c' each execution of c pushes x
\* and nothing else, ' c EXECUTE leaves what c leaves, and c pushes x still
\* after a line that allots, compiles and defines other names.
C17_ConstantPushes == \A x \in Values : ConstantDefined(M, Dict(M), x)

\* C17 happens: the line '5 CONSTANT c VARIABLE v 7 VALUE u CREATE k
\* : w 42 ; foo' has defined the constant c and more after it, and the line
\* 'c u w v k' has executed c, which has pushed 5
C17_Witness ==
    /\ calls = 2 /\ text = L_use /\ pc = "loop"
    /\ S = DATA_STACK_ADDR + 8 /\ TopOf(M) = 5
    /\ Hits(M, Dict(M), N_c) # {}

\* ------------------------------------------------------------------------
\* C18
\* ------------------------------------------------------------------------
\* the lines 'x VALUE v 11 VALUE o 12 CONSTANT q', 'y TO v' and 'v v o q'
ValueLine(x) == ToDecimal(x) \o <<32,86,65,76,85,69,32,118,32,49,49,32,86,65,76,85,69,32,111,32,49,50,32,67,79,78,83,84,65,78,84,32,113>>
ToLine(y)    == ToDecimal(y) \o <<32,84,79,32,118>>
L_vvoq       == <<118,32,118,32,111,32,113>>

\* the line r run from the machine m has pushed x, x, 11 and 12, and
\* nothing else
PushedAll(m, r, x) ==
    /\ r.how = "ok"
    /\ r.m.S = m.S + 32
    /\ NumberAt(r.m, r.m.S - 32) = x
    /\ ThirdOf(r.m) = x
    /\ SecondOf(r.m) = 11
    /\ TopOf(r.m) = 12

\* the line t has left the data stack of m as it was, and has changed one
\* cell of the dictionary at most, the cell of the newest v
OnlyStored(m, t, pfa) ==
    /\ t.how = "ok"
    /\ StackOf(t.m) = StackOf(m)
    /\ \A a \in (DOMAIN Searched(m) \cup DOMAIN Searched(t.m)) \ {pfa} :
           CellAt(t.m.mem, a) = CellAt(m.mem, a)

\* The lines run after 'x VALUE v 11 VALUE o 12 CONSTANT q': v v o q pushes
\* x x 11 12; after 'y TO v' from there it pushes y y 11 12, each execution
\* of v pushing y, and TO v has changed the cell of v only
ValueRuns(m, x, y, before, t, pfa) ==
    /\ PushedAll(m, before, x)
    /\ OnlyStored(m, t, pfa)
    /\ PushedAll(t.m, RunLine(t.m, L_vvoq), y)

\* the header of the newest visible definition of the name in dictionary hs
NewestOf(m, hs, name) == hs[First(Hits(m, hs, name))]

ValueAfter(d, x, y) ==
    ValueRuns(d.m, x, y, RunLine(d.m, L_vvoq), RunLine(d.m, ToLine(y)),
              NewestOf(d.m, Dict(d.m), <<86>>) + 48)

\* From a machine in interpret state, a line 'x VALUE v ...' that ends with
\* ok defines such a v; and it ends with ok when the dictionary is intact
ValueAs(m, hs, d, x, y) ==
    NumberAt(m, STATE_ADDR) = 0 =>
        /\ Intact(m, hs) => d.how = "ok"
        /\ (d.how = "ok" /\ Intact(d.m, Dict(d.m))) => ValueAfter(d, x, y)

ValueDefined(m, hs, x, y) == ValueAs(m, hs, RunLine(m, ValueLine(x)), x, y)

\* C18: in every state in interpret state with the dictionary intact, for
\* the values x and y of Values, after 'x VALUE v' each execution of v
\* pushes x; after a later 'y TO v' each pushes y; and TO v changes no cell
\* of the dictionary but the one of v, so that the value o and the constant
\* q defined after v push what they pushed.
C18_ValueTo == \A x \in Values : \A y \in Values \ {x} : ValueDefined(M, Dict(M), x, y)

\* C18 happens: the line '3 VALUE v 4 TO v v' has run, and v has pushed 4
C18_Witness ==
    /\ text = L_to /\ pc = "idle" /\ ret = "ok"
    /\ S = DATA_STACK_ADDR + 8 /\ TopOf(M) = 4

\* ------------------------------------------------------------------------
\* C19
\* ------------------------------------------------------------------------
\* the longest sequence of , C, and ALLOT run
MaxWords == 3

\* , of 4711, C, of 65, and ALLOT of sizes
Compilers(sizes) ==
    {<<"COMMA", 4711>>, <<"C_COMMA", 65>>} \cup {<<"ALLOT", n>> : n \in sizes}

\* the sequences of 1 to MaxWords such words
Sequences(sizes) == UNION {[1 .. k -> Compilers(sizes)] : k \in 1 .. MaxWords}

RECURSIVE RunWords(_, _, _)
\* the machine after the words i, i+1, ... of the sequence, each with its
\* argument pushed before it
RunWords(m, ws, i) ==
    IF Thrown(m) \/ i > Len(ws) THEN m
    ELSE RunWords(Call(push(m, ws[i][2]), ws[i][1], 0), ws, i + 1)

\* the least multiple of 8 that is not below ds
RoundUp(ds) == ((ds + 7) \div 8) * 8

RECURSIVE HereAfter(_, _, _)
\* HERE after the words i, i+1, ... of the sequence, from HERE = ds: 8 above
\* the rounded HERE for , and 1 more for C, and n more for n ALLOT
HereAfter(ds, ws, i) ==
    IF i > Len(ws) THEN ds
    ELSE HereAfter(CASE ws[i][1] = "COMMA"   -> RoundUp(ds) + 8
                     [] ws[i][1] = "C_COMMA" -> ds + 1
                     [] ws[i][1] = "ALLOT"   -> ds + ws[i][2],
                   ws, i + 1)

\* @ of the cell below HERE
FetchedBack(r) == Call(push(r, r.DS - 8), "FETCH", 0)

\* The machine r after the sequence ws from m: HERE is where the sizes and
\* the padding put it, the data stack is as it was, and after a , the cell
\* stored is fetched back from the address it was stored at
Compiled(m, r, ws) ==
    /\ ~Thrown(r)
    /\ r.DS = HereAfter(m.DS, ws, 1)
    /\ r.S = m.S
    /\ ws[Len(ws)][1] = "COMMA" =>
           /\ r.DS - 8 = RoundUp(HereAfter(m.DS, SubSeq(ws, 1, Len(ws) - 1), 1))
           /\ ~Thrown(FetchedBack(r))
           /\ TopOf(FetchedBack(r)) = ws[Len(ws)][2]

AllCompiled(m, sizes) ==
    \A ws \in Sequences(sizes) : Compiled(m, RunWords(m, ws, 1), ws)

\* C19: in every state, after every sequence of 1 to MaxWords of the words
\* 4711 , and 65 C, and n ALLOT with n 3, 16 or MEMORY_SIZE, HERE is its
\* starting value plus 8 a , (from the rounded HERE), 1 a C, and n an ALLOT,
\* and the cell a , stored is fetched back by @ at its address.
C19_HereAdvances == AllCompiled(M, {3, 16, MEMORY_SIZE})

\* the same for sequences that leave HERE inside the memory
C19_InMemory == AllCompiled(M, {3, 16})

\* ------------------------------------------------------------------------
\* C20
\* ------------------------------------------------------------------------
\* the cells the inputs are taken from
Inputs == {0, 7}

\* The stack effect comments of the words: from the inputs x, the last of
\* them on top, the outputs, the last of them on top
StackEffect(w, x) ==
    CASE w = "DROP"         -> <<>>                                  \* ( x -- )
      [] w = "DUP"          -> <<x[1], x[1]>>                        \* ( x -- x x )
      [] w = "QUESTION_DUP" -> IF x[1] = 0 THEN <<0>> ELSE <<x[1], x[1]>>  \* ( x -- 0 | x x )
      [] w = "OVER"         -> <<x[1], x[2], x[1]>>                  \* ( x1 x2 -- x1 x2 x1 )
      [] w = "SWAP"         -> <<x[2], x[1]>>                        \* ( x1 x2 -- x2 x1 )
      [] w = "NIP"          -> <<x[2]>>                              \* ( x1 x2 -- x2 )
      [] w = "ROT"          -> <<x[2], x[3], x[1]>>                  \* ( x1 x2 x3 -- x2 x3 x1 )
      [] w = "TUCK"         -> <<x[2], x[1], x[2]>>                  \* ( x1 x2 -- x2 x1 x2 )
      [] w = "SUM"          -> <<x[1] + x[2]>>                       \* ( n1 n2 -- n3 )
      [] w = "MINUS"        -> <<x[1] - x[2]>>                       \* ( n1 n2 -- n3 )
      [] w = "EQUALS"       -> <<IF x[1] = x[2] THEN 0 - 1 ELSE 0>>  \* ( x1 x2 -- flag )
      [] w = "ZERO_EQUALS"  -> <<IF x[1] = 0 THEN 0 - 1 ELSE 0>>     \* ( x -- flag )
      [] w = "PICK"         -> SubSeq(x, 1, Len(x) - 1) \o <<x[Len(x) - 1 - x[Len(x)]]>>
                                                   \* ( xu...x1 x0 u -- xu...x1 x0 xu )

\* the words with one, two and three inputs
Unary   == {"DROP", "DUP", "QUESTION_DUP", "ZERO_EQUALS"}
Binary  == {"OVER", "SWAP", "NIP", "TUCK", "SUM", "MINUS", "EQUALS"}
Ternary == {"ROT"}

\* the inputs of PICK: u + 1 cells, and u on top
PickInputs == UNION {{x \o <<u>> : x \in [1 .. u + 1 -> Inputs]} : u \in 0 .. 2}

\* the words with the inputs they are run with
Cases ==
    UNION { {<<w, x>> : w \in Unary,   x \in [1 .. 1 -> Inputs]},
            {<<w, x>> : w \in Binary,  x \in [1 .. 2 -> Inputs]},
            {<<w, x>> : w \in Ternary, x \in [1 .. 3 -> Inputs]},
            {<<"PICK", x>> : x \in PickInputs} }

RECURSIVE PushAll(_, _, _)
\* the cells i, i+1, ... of x pushed in order
PushAll(m, x, i) ==
    IF Thrown(m) \/ i > Len(x) THEN m ELSE PushAll(push(m, x[i]), x, i + 1)

\* the numbers in the n cells on top of the data stack, the top last
TopCells(m, n) == [i \in 1 .. n |-> NumberAt(m, m.S - 8 * (n - i + 1))]

\* The machine r after the word from the machine m with the inputs pushed:
\* the outputs y are on top, in place of the inputs, and the cells below are
\* as they were
EffectIs(m, r, y) ==
    /\ ~Thrown(r)
    /\ r.S = m.S + 8 * Len(y)
    /\ TopCells(r, Len(y)) = y
    /\ SubSeq(StackOf(r), 1, Cells(m)) = StackOf(m)
    /\ r.R = m.R /\ r.DS = m.DS /\ r.out = m.out

HasEffect(m, c) == EffectIs(m, Call(PushAll(m, c[2], 1), c[1], 0), StackEffect(c[1], c[2]))

\* C20: in every state, each of DROP DUP ?DUP PICK OVER SWAP NIP ROT TUCK
\* + - = and 0=, run with its inputs pushed on the data stack of the state,
\* leaves the outputs of its stack effect comment in place of the inputs,
\* and every cell below them as it was.
C20_StackEffects == \A c \in Cases : HasEffect(M, c)

\* C20 happens: the line '21 DUP +' has executed DUP on the cell 21
C20_Witness ==
    /\ text = L_body /\ pc = "loop"
    /\ S = DATA_STACK_ADDR + 16 /\ TopOf(M) = 21 /\ SecondOf(M) = 21

\* ------------------------------------------------------------------------
\* C21
\* ------------------------------------------------------------------------
\* the sizes of the stacks, in cells
DATA_STACK_CELLS == 32
RET_STACK_CELLS == 1024

\* the line of 33 numbers
L_deep == <<55,32,55,32,55,32,55,32,55,32,55,32,55,32,55,32,55,32,55,32,55,32,55,32,55,32,55,32,55,32,55,32,55,32,55,32,55,32,55,32,55,32,55,32,55,32,55,32,55,32,55,32,55,32,55,32,55,32,55,32,55,32,55,32,55>>
    \* '7 7 7 ... 7'

\* the stack pointers of the machine m are within the stacks
WithinStacks(m) ==
    /\ m.S <= DATA_STACK_ADDR + DATA_STACK_CELLS * 8
    /\ m.R <= RET_STACK_ADDR + RET_STACK_CELLS * 8

\* the run r of a line from the machine m has stayed within the stacks and
\* has left the first cell of the return-stack region as it was
StaysWithin(m, r) ==
    r.how \in Returns =>
        /\ WithinStacks(r.m)
        /\ CellBytes(CellAt(r.m.mem, RET_STACK_ADDR)) = CellBytes(CellAt(m.mem, RET_STACK_ADDR))

\* C21: the data stack never holds more than 32 cells and the return stack
\* never more than 1024 cells, in this state and after a line of 33 numbers,
\* and the line writes no cell of the return-stack region.
C21_StacksBounded ==
    /\ WithinStacks(M)
    /\ StaysWithin(M, RunLine(M, L_deep))

\* ------------------------------------------------------------------------
\* C22
\* ------------------------------------------------------------------------
L_allot == <<54,52,48,48,48,32,65,76,76,79,84>>
    \* '64000 ALLOT'

\* HERE of the machine m is strictly between the start and the end of the
\* data space
HereWithin(m) == DSP_START_ADDR < m.DS /\ m.DS < MEMORY_SIZE

\* the run r of a line has ended with HERE within the data space: the line
\* has allotted within it, or has been refused
EndsWithin(r) == r.how \in Returns => HereWithin(r.m)

\* C22: HERE is strictly between 10000 and 64000, in this state and after a
\* line that allots 64000 address units: the ALLOT that would take HERE
\* beyond 64000 is not performed.
C22_HereWithin ==
    /\ HereWithin(M)
    /\ EndsWithin(RunLine(M, L_allot))

\* ------------------------------------------------------------------------
\* C23
\* ------------------------------------------------------------------------
\* the walk along the link fields from the dictionary head
Chain(m) ==
    Headers(m, [at |-> NumberAt(m, CURRENT_DEF_ADDR), hs |-> <<>>, on |-> TRUE],
            MEMORY_SIZE \div 8)

\* the walk w has reached the link 0, and every link is below the header
\* that holds it
EndsAtZero(w) ==
    /\ w.at = 0
    /\ \A k \in 1 .. (Len(w.hs) - 1) : w.hs[k + 1] < w.hs[k]

\* FIND of the name ends with a miss
Misses(m, name) ==
    LET f == Find(m, name)
    IN  ~Thrown(f) /\ TopOf(f) = 0

\* the link chain of the machine m ends, and so does FIND of a name that is
\* not defined
ChainEnds(m) ==
    /\ Readable(CellAt(m.mem, CURRENT_DEF_ADDR))
    /\ EndsAtZero(Chain(m))
    /\ Misses(m, N_none)

\* the lines that use the defining words and the data-space words only, and
\* the one among them that gives dictionary space back
Definers == {L_fortytwo, L_sq, L_colonfoo, L_defs, L_to, L_cycle}
GivesBack == {L_cycle}

\* C23: in every state of a first call whose line uses the defining words
\* and the data-space words (ALLOT with any count among them), the link
\* chain from the dictionary head reaches 0, every link being below the
\* header that holds it, and FIND of an undefined name ends with a miss.
C23_ChainEnds == (calls = 1 /\ text \in Definers) => ChainEnds(M)

\* the same for the lines that give no dictionary space back
C23_NoGiveBack == (calls = 1 /\ text \in Definers \ GivesBack) => ChainEnds(M)

\* ------------------------------------------------------------------------
\* C24
\* ------------------------------------------------------------------------
\* the greatest name length of a header
MaxNameLength == 30

\* the name-length byte of every header of hs is at most 30
Capped(m, hs) == \A k \in 1 .. Len(hs) : cFetch(m, hs[k]) <= MaxNameLength

\* the run r of a line has left capped headers only
LeavesCapped(r) == r.how \in Returns => Capped(r.m, Dict(r.m))

\* C24: the name-length byte of every header of the dictionary is at most
\* 30, in this state and after CREATE with a name of 3, of 30 and of 31
\* characters.
C24_NamesCapped ==
    /\ Capped(M, Dict(M))
    /\ \A typed \in {T_abc, T_30, T_31} : LeavesCapped(RunLine(M, CreateLine(typed)))

\* the same for names of at most 30 characters
C24_UpTo30 ==
    /\ Capped(M, Dict(M))
    /\ \A typed \in {T_abc, T_30} : LeavesCapped(RunLine(M, CreateLine(typed)))

\* ------------------------------------------------------------------------
\* C25
\* ------------------------------------------------------------------------
\* the parameter-field address and the runtime id that EXECUTE takes from
\* an XT
PfaOf(xt) == xt \div 100000
RidOf(xt) == JsRem(xt, 10000)

\* the XT that the defining words make of a parameter-field address and a
\* runtime id
XTOf(pfa, rid) == 100000 * pfa + rid

\* the greatest parameter-field address decoded: 100000 times the address
\* is a number of the model up to it
MaxPfa == 21473

\* the parameter-field addresses and the runtime ids decoded: every address
\* up to MaxPfa and every id from 9800 up to 10000
PFAs == 0 .. MaxPfa
RIDs == NATIVE_XT_ADDR .. (DSP_START_ADDR - 1)

\* the XT cell of the header nfa holds 100000*(nfa+48) + RID with a RID of
\* the primitive table, and >BODY takes the parameter field from it
ValidXT(m, nfa) ==
    /\ Readable(CellAt(m.mem, nfa + 40))
    /\ RidOf(NumberAt(m, nfa + 40)) \in DOMAIN wordMap
    /\ NumberAt(m, nfa + 40) = XTOf(nfa + 48, RidOf(NumberAt(m, nfa + 40)))
    /\ PfaOf(NumberAt(m, nfa + 40)) = nfa + 48
    /\ TopOf(Call(push(m, NumberAt(m, nfa + 40)), "TO_BODY", 0)) = nfa + 48

\* every header of hs has a valid XT
AllValid(m, hs) == \A k \in 1 .. Len(hs) : ValidXT(m, hs[k])

\* decoding recovers the parameter-field address and the runtime id
Decodes(pfa, rid) == PfaOf(XTOf(pfa, rid)) = pfa /\ RidOf(XTOf(pfa, rid)) = rid

\* C25: the XT cell of every header holds 100000*(header+48) + RID with a
\* RID of the primitive table, and floor(XT/100000) and XT mod 10000 recover
\* the PFA and the RID, for every PFA up to MaxPfa and every RID from 9800
\* up to 10000.
C25_XTDecodes ==
    /\ AllValid(M, Dict(M))
    /\ calls = 0 => \A pfa \in PFAs : \A rid \in RIDs : Decodes(pfa, rid)

\* the headers of hs lie apart: none is built over the 48 bytes of an older
\* one, and HERE is above the newest
Apart(m, hs) ==
    /\ hs # <<>> => m.DS >= hs[1] + 48
    /\ \A k \in 1 .. (Len(hs) - 1) : hs[k] >= hs[k + 1] + 48

\* the same for the dictionaries whose headers lie apart
C25_Apart ==
    /\ Apart(M, Dict(M)) => AllValid(M, Dict(M))
    /\ calls = 0 => \A pfa \in PFAs : \A rid \in RIDs : Decodes(pfa, rid)

\* ------------------------------------------------------------------------
\* C26
\* ------------------------------------------------------------------------
\* the tokens dispatched, and the lines of a definition with and without
\* tokens between [ and ]
T_dup  == <<68,85,80>>
T_dot  == <<46>>
T_lbr  == <<91>>
T_semi == <<59>>
L_brackets == <<58,32,116,32,91,32,52,50,32,68,85,80,32,46,32,93,32,59>>
    \* ': t [ 42 DUP . ] ;'
L_plain == <<58,32,116,32,59>>
    \* ': t ;'

\* the machine m with the line of one token, before the pass that takes it
Given(m, tok) == interpret([m EXCEPT !.out = <<>>], tok)

\* what a token leaves for the user to see: the data stack, the sink, HERE
\* and STATE
Seen(m) == <<StackOf(m), m.out, m.DS, NumberAt(m, STATE_ADDR)>>

\* the pass r from the machine a has executed the word w
ExecutedIn(a, r, w) ==
    r.how = "loop" /\ Seen(r.m) = Seen(Call(a, w, 0))

\* the pass r from the machine a has appended xt and a nextRTS XT to the
\* dictionary and has not executed the word
CompiledIn(a, r, xt) ==
    /\ r.how = "loop"
    /\ StackOf(r.m) = StackOf(a) /\ r.m.out = a.out
    /\ NumberAt(r.m, STATE_ADDR) = NumberAt(a, STATE_ADDR)
    /\ r.m.DS = RoundUp(a.DS) + 16
    /\ NumberAt(r.m, RoundUp(a.DS)) = xt

\* the XT in the newest visible header of hs with the name
XTNamed(m, hs, name) == NumberAt(m, hs[First(Hits(m, hs, name))] + 40)

\* The dispatch of the word w with the name tok from the machine m with the
\* headers hs: in interpret state it is executed; in compile state it is
\* executed when imm and compiled otherwise
Dispatched(m, hs, tok, w, imm) ==
    LET i == Given(LEFT_BRACKET(m), tok)
        c == Given(RIGHT_BRACKET(m), tok)
    IN  /\ ExecutedIn(i, runInterpreter(i), w)
        /\ IF imm THEN ExecutedIn(c, runInterpreter(c), w)
           ELSE CompiledIn(c, runInterpreter(c), XTNamed(m, hs, tok))

\* The run b of ': t [ 42 DUP . ] ;' and the run p of ': t ;' from the
\* machine m: the tokens between the brackets have been executed, 42 DUP
\* has left 42 twice and . has written one of them, and the definition is
\* that of ': t ;'
BracketsRun(m, b, p) ==
    /\ b.how = "ok" /\ p.how = "ok"
    /\ b.m.S = m.S + 8 /\ TopOf(b.m) = 42 /\ p.m.S = m.S
    /\ b.m.out = L_brackets \o <<32>> \o <<52,50,32>> \o <<32>> \o MsgOk \o <<10>>
    /\ b.m.DS = p.m.DS
    /\ Searched(b.m) = Searched(p.m)

\* C26: in every state with the dictionary intact, DUP and . are executed
\* in interpret state, and appended and not executed in compile state; [
\* and ; are executed in both; and the tokens between [ and ] in a colon
\* definition are executed at once and add nothing to its body.
C26_Dispatch ==
    Intact(M, Dict(M)) =>
        /\ Dispatched(push(M, 7), Dict(M), T_dup, "DUP", FALSE)
        /\ Dispatched(push(M, 7), Dict(M), T_dot, "DOT", FALSE)
        /\ Dispatched(M, Dict(M), T_lbr, "LEFT_BRACKET", TRUE)
        /\ Dispatched(M, Dict(M), T_semi, "SEMICOLON", TRUE)
        /\ BracketsRun(LEFT_BRACKET(M), RunLine(LEFT_BRACKET(M), L_brackets),
                       RunLine(LEFT_BRACKET(M), L_plain))

\* C26 happens: the line ': fortytwo 21 DUP + ;   fortytwo' is in compile
\* state past its DUP, which is in the body after the number and has not
\* been executed
C26_Witness ==
    /\ text = L_fortytwo /\ pc = "loop" /\ calls = 1
    /\ NumberAt(M, STATE_ADDR) # 0
    /\ S = DATA_STACK_ADDR
    /\ DS = NumberAt(M, CURRENT_DEF_ADDR) + 48 + 32
    /\ NumberAt(M, DS - 16) = XTNamed(M, Dict(M), T_dup)

\* ------------------------------------------------------------------------
\* C27
\* ------------------------------------------------------------------------
\* the name defined, and the lines that define it: with a number in the
\* body, with its own name in the body, and twice, the second time with its
\* own name in the body
N_t == <<84>>
L_one   == <<58,32,116,32,49,32,59>>
    \* ': t 1 ;'
L_self  == <<58,32,116,32,116,32,59>>
    \* ': t t ;'
L_again == <<58,32,116,32,49,32,59,32,58,32,116,32,116,32,59>>
    \* ': t 1 ; : t t ;'

\* the line from the machine m, after its first k tokens
AfterTokens(m, line, k) ==
    RunLoop(Outcome(interpret([m EXCEPT !.out = <<>>], line), "loop"), k)

\* the dictionary head of the machine m
HeadOf(m) == NumberAt(m, CURRENT_DEF_ADDR)

\* the definition of the name is in progress in the run r from the machine
\* m: its header is the new dictionary head and Hidden, and STATE is compile
InProgress(m, r, name) ==
    /\ r.how = "loop"
    /\ HeadOf(r.m) = RoundUp(m.DS) /\ NameOf(r.m, HeadOf(r.m)) = name
    /\ IsHidden(r.m, HeadOf(r.m))
    /\ NumberAt(r.m, STATE_ADDR) # 0

\* the definition of the name is complete in the run r from the machine m:
\* its header is the dictionary head and visible, its last cell is an
\* unNestRTS XT, and STATE is interpret
Complete(m, r, name) ==
    /\ r.how = "loop"
    /\ HeadOf(r.m) = RoundUp(m.DS) /\ NameOf(r.m, HeadOf(r.m)) = name
    /\ ~IsHidden(r.m, HeadOf(r.m))
    /\ RidOf(NumberAt(r.m, r.m.DS - 8)) = NATIVE_XT_ADDR + 4
    /\ NumberAt(r.m, STATE_ADDR) = 0

\* the line ': t 1 ;' from the machine m: in progress after : and after the
\* number, complete after ;
Defines(m) ==
    /\ InProgress(m, AfterTokens(m, L_one, 1), N_t)
    /\ InProgress(m, AfterTokens(m, L_one, 2), N_t)
    /\ Complete(m, AfterTokens(m, L_one, 3), N_t)

\* the run r of ': t t ;' from the machine m, where no t is defined, ends with
\* the name reported as unknown and its header left Hidden
SelfUnknown(m, r) ==
    /\ r.how = "abort" /\ r.msg = MsgUnknown
    /\ EndsWith(r.m.out, <<116,32,63,10>>)
    /\ IsHidden(r.m, HeadOf(r.m)) /\ NameOf(r.m, HeadOf(r.m)) = N_t
    /\ r.m.S = DATA_STACK_ADDR

\* the run r of ': t 1 ; : t t' from the machine m: the t compiled into the
\* body of the second definition, which is in progress, is the XT of the
\* first, which its link field holds
SelfPrevious(m, r) ==
    /\ r.how = "loop"
    /\ IsHidden(r.m, HeadOf(r.m)) /\ NameOf(r.m, HeadOf(r.m)) = N_t
    /\ NumberAt(r.m, HeadOf(r.m) + 32) = RoundUp(m.DS)
    /\ NumberAt(r.m, HeadOf(r.m) + 48) = NumberAt(r.m, RoundUp(m.DS) + 40)
    /\ r.m.DS = HeadOf(r.m) + 48 + 16
    /\ r.m.S = m.S

\* C27: in every state with the dictionary intact and no t defined, a
\* definition ': t ... ;' without [ in its body is Hidden and STATE is
\* compile from : until ;, after which it is visible, ends with an
\* unNestRTS XT, and STATE is interpret; t in its own body is reported as
\* unknown when there is no older t, and is the older t when there is one.
\* And in every state of a line in compile state the dictionary head is
\* Hidden.
C27_HiddenUntilSemicolon ==
    /\ (pc = "loop" /\ NumberAt(M, STATE_ADDR) # 0) => IsHidden(M, HeadOf(M))
    /\ (Intact(M, Dict(M)) /\ Hits(M, Dict(M), N_t) = {}) =>
          /\ Defines(LEFT_BRACKET(M))
          /\ SelfUnknown(LEFT_BRACKET(M), RunLine(LEFT_BRACKET(M), L_self))
          /\ SelfPrevious(LEFT_BRACKET(M), AfterTokens(LEFT_BRACKET(M), L_again, 5))

\* C27 happens: the line ': fortytwo 21 DUP + ;   fortytwo' is past its ;
\* with the definition of fortytwo visible and ended by an unNestRTS XT
C27_Witness ==
    /\ text = L_fortytwo /\ pc = "loop" /\ calls = 1
    /\ NumberAt(M, STATE_ADDR) = 0 /\ S = DATA_STACK_ADDR
    /\ NameOf(M, HeadOf(M)) = N_fortytwo /\ ~IsHidden(M, HeadOf(M))
    /\ RidOf(NumberAt(M, DS - 8)) = NATIVE_XT_ADDR + 4

\* ------------------------------------------------------------------------
\* C28
\* ------------------------------------------------------------------------
\* the number token compiled
T_five == <<53>>

\* the address units allotted before the token is compiled: none, and one,
\* which leaves HERE unaligned
Offsets == {0, 1}

\* the machine m in compile state with k address units allotted
Moved(m, k) == RIGHT_BRACKET(ALLOT(push(m, k)))

\* The pass r from the machine a has compiled the number n: the cell A that
\* holds its cellRTS XT is the first free cell, the PFA field of the XT is
\* A+8, and the cell at A+8 holds n
NumberCompiled(a, r, n) ==
    /\ r.how = "loop"
    /\ StackOf(r.m) = StackOf(a) /\ r.m.out = a.out
    /\ r.m.DS = RoundUp(a.DS) + 16
    /\ NumberAt(r.m, RoundUp(a.DS)) = XTOf(RoundUp(a.DS) + 8, NATIVE_XT_ADDR + 6)
    /\ NumberAt(r.m, RoundUp(a.DS) + 8) = n

\* The pass r from the machine a has compiled the word with the token xt:
\* the cell A holds xt, and the cell at A+8 a nextRTS XT whose PFA field is
\* A+8
WordCompiled(a, r, xt) ==
    /\ CompiledIn(a, r, xt)
    /\ NumberAt(r.m, RoundUp(a.DS) + 8) = XTOf(RoundUp(a.DS) + 8, NATIVE_XT_ADDR + 5)

\* the pass r of ; from the machine a has appended one cell, an unNestRTS XT
EndCompiled(a, r) ==
    /\ r.how = "loop"
    /\ r.m.DS = RoundUp(a.DS) + 8
    /\ RidOf(NumberAt(r.m, RoundUp(a.DS))) = NATIVE_XT_ADDR + 4

\* the tokens 5, DUP and ; compiled from the machine m, in compile state,
\* with the headers hs
CompiledFrom(m, hs) ==
    /\ NumberCompiled(Given(m, T_five), runInterpreter(Given(m, T_five)), 5)
    /\ WordCompiled(Given(m, T_dup), runInterpreter(Given(m, T_dup)), XTNamed(m, hs, T_dup))
    /\ EndCompiled(Given(m, T_semi), runInterpreter(Given(m, T_semi)))

\* C28: in every state with the dictionary intact, with HERE as it is and
\* with HERE one address unit further, a number compiled has its cellRTS XT
\* in a cell A, with the PFA field A+8, and the number in the cell at A+8; a
\* word compiled has its XT at A and a nextRTS XT with the PFA field A+8 at
\* A+8; and ; appends one unNestRTS XT.
C28_CompiledCells ==
    Intact(M, Dict(M)) => \A k \in Offsets : CompiledFrom(Moved(M, k), Dict(M))

\* the same with HERE aligned
C28_Aligned ==
    (Intact(M, Dict(M)) /\ DS % 8 = 0) => CompiledFrom(Moved(M, 0), Dict(M))

\* ------------------------------------------------------------------------
\* C29
\* ------------------------------------------------------------------------
\* cell values executed: with runtime ids below, within and above the range
\* of the primitive table, negative, and of the form of an XT
Executed ==
    { 0, 7, 0 - 9800, NATIVE_XT_ADDR - 1, NATIVE_XT_ADDR + Len(Words), 9900,
      DSP_START_ADDR - 1, DSP_START_ADDR, XTOf(DSP_START_ADDR, 42),
      XTOf(DSP_START_ADDR + 48, NATIVE_XT_ADDR + Len(Words)),
      XTOf(DSP_START_ADDR + 48, DSP_START_ADDR - 1) }

\* the runtime id of the cell value is not registered in the primitive table
Unregistered(xt) == RidOf(xt) \notin DOMAIN wordMap

L_exec == <<57,57,48,48,32,69,88,69,67,85,84,69>>
    \* '9900 EXECUTE'

\* EXECUTE of the cell value xt from the machine m raises Not an executable,
\* having taken xt from the stack and done nothing else
Rejected(m, xt) ==
    LET e == Call(push(m, xt), "EXECUTE", 0)
    IN  /\ e.err = MsgNotExecutable
        /\ e.S = m.S /\ e.R = m.R /\ e.DS = m.DS /\ e.out = m.out
        /\ e.mem = push(m, xt).mem

\* the run r of a line has ended in the abort of Not an executable
RejectedIn(r) == r.how = "abort" /\ r.msg = MsgNotExecutable

\* C29: in every state, EXECUTE of a cell value whose runtime id is not
\* registered in the primitive table raises Not an executable and runs no
\* native action, and so does the line '9900 EXECUTE'.
C29_NotExecutable ==
    /\ \A xt \in Executed : Unregistered(xt) => Rejected(M, xt)
    /\ RunLine(M, L_exec).how \in Returns => RejectedIn(RunLine(M, L_exec))

\* the same for the runtime ids outside the range from 9800 up to 10000
C29_OutOfRange ==
    \A xt \in Executed : RidOf(xt) \notin RIDs => Rejected(M, xt)

\* ------------------------------------------------------------------------
\* C30
\* ------------------------------------------------------------------------
\* the greatest length of the strings converted
MaxLen == 3

\* the characters of the strings: + - 0 7 a and the space
Alphabet == {43, 45, 48, 55, 97, 32}

\* the strings of at most MaxLen characters
Strings == UNION {[1 .. k -> Alphabet] : k \in 0 .. MaxLen}

IsDigit(c) == 47 < c /\ c < 58
IsSign(c)  == c = 43 \/ c = 45

\* the string is made of one or more decimal digits
AllDigits(t) == Len(t) > 0 /\ \A i \in 1 .. Len(t) : IsDigit(t[i])

\* the string is an optional + or - followed by one or more decimal digits
IsNumeral(t) ==
    \/ AllDigits(t)
    \/ Len(t) > 1 /\ IsSign(t[1]) /\ AllDigits(SubSeq(t, 2, Len(t)))

\* the remaining length that >NUMBER returns for the string
Remaining(m, t) == TopOf(Convert(m, t))

\* >NUMBER returns the remaining length zero for the numerals only
ZeroForNumerals(m, ts) ==
    \A t \in ts : ~Thrown(Convert(m, t)) /\ (Remaining(m, t) = 0 <=> IsNumeral(t))

\* C30: >NUMBER returns the remaining length zero for the strings made of an
\* optional + or - and one or more decimal digits, and a remaining length
\* that is not zero for every other string, the empty string among them:
\* for all strings of at most MaxLen characters on the fresh interpreter,
\* and for the empty string and three more in every state.
C30_RemainingLength ==
    /\ calls = 0 => ZeroForNumerals(M, Strings)
    /\ ZeroForNumerals(M, {<<>>, <<45,55>>, <<55,97>>, <<45>>})

\* the same for the strings other than the empty string and a sign alone
C30_WithCharacters ==
    /\ calls = 0 => ZeroForNumerals(M, Strings \ {<<>>, <<43>>, <<45>>})
    /\ ZeroForNumerals(M, {<<45,55>>, <<55,97>>, <<55>>})

\* ------------------------------------------------------------------------
\* C31
\* ------------------------------------------------------------------------
\* addresses that are not multiples of 8: in the registers, the data stack,
\* the dictionary and the free data space, below 0 and above the memory
Unaligned == {1, 97, DATA_STACK_ADDR + 4, DSP_START_ADDR + 1, DSP_START_ADDR + 47,
              MEMORY_SIZE - 1, MEMORY_SIZE + 1, 0 - 3}

\* the error of an unaligned address
NotAligned(aAddr) == MsgNotAligned \o ToDecimal(aAddr)

\* the word from the machine a has raised the error of the address and has
\* changed no cell
RaisedFor(a, r, aAddr) ==
    r.err = NotAligned(aAddr) /\ r.mem = a.mem /\ r.DS = a.DS /\ r.out = a.out

\* ! and @ with the address on top of the stack of the machine m
StoreAt(m, aAddr) == RaisedFor(push(push(m, 7), aAddr), STORE(push(push(m, 7), aAddr)), aAddr)
FetchAt(m, aAddr) == RaisedFor(push(m, aAddr), FETCH(push(m, aAddr)), aAddr)

\* the names after the defining words
N_new == <<110,101,119>>

\* the defining word w, with x on the stack and the name next on the line,
\* has made no access to a cell at an unaligned address: it has returned
Aligns(m, w, x) == ~Thrown(Call(push(Given(m, N_new), x), w, 0))

\* the defining words
Defining == {"CREATE", "VARIABLE", "CONSTANT", "VALUE", "COLON"}

\* C31: in every state, S and R are multiples of 8; ! and @ with an address
\* that is not a multiple of 8 raise Address is not aligned. Given: and the
\* address, and change no memory cell; and the defining words, with HERE as
\* it is and with HERE one address unit further, raise no such error.
C31_Aligned ==
    /\ S % 8 = 0 /\ R % 8 = 0
    /\ \A aAddr \in Unaligned : StoreAt(M, aAddr) /\ FetchAt(M, aAddr)
    /\ \A w \in Defining : \A k \in Offsets : Aligns(ALLOT(push(M, k)), w, 5)

\* C31 happens: the line '7 10001 !' has ended in the abort of the error
\* of the address 10001
C31_Witness ==
    /\ pc = "idle" /\ text = L_store /\ ret = "abort"
    /\ msg = NotAligned(DSP_START_ADDR + 1)
    /\ S = DATA_STACK_ADDR

\* ------------------------------------------------------------------------
\* C32
\* ------------------------------------------------------------------------
L_noname == <<49,32,65,76,76,79,84,32,58>>
    \* '1 ALLOT :'

\* the defining word, run from the machine a with no name left on the line,
\* has raised Empty name and has left the dictionary, its head and HERE as
\* they were
Nameless(a, r) ==
    /\ r.err = MsgEmptyName
    /\ r.DS = a.DS
    /\ HeadOf(r) = HeadOf(a)
    /\ Searched(r) = Searched(a)

\* the defining word w from the machine m, with x on the stack and the line
\* at its end
AtLineEnd(m, w, x) ==
    Nameless(push(Given(m, <<>>), x), Call(push(Given(m, <<>>), x), w, 0))

\* the run r of a line from the machine m has reported Empty name and has
\* left HERE k address units above that of m
ReportedAt(m, r, k) ==
    r.how \in Returns => r.how = "abort" /\ r.msg = MsgEmptyName /\ r.m.DS = m.DS + k

\* C32: in every state, with HERE as it is and with HERE one address unit
\* further, each defining word run with no name left on the line raises
\* Empty name and leaves the dictionary, its head and HERE as they were;
\* and the line '1 ALLOT :' reports Empty name with HERE where 1 ALLOT has
\* left it.
C32_EmptyName ==
    /\ \A w \in Defining : \A k \in Offsets : AtLineEnd(ALLOT(push(M, k)), w, 5)
    /\ ReportedAt(M, RunLine(M, L_noname), 1)

\* the same for the defining words other than :, and for : with HERE aligned
C32_Aligned ==
    /\ \A w \in Defining \ {"COLON"} : \A k \in Offsets : AtLineEnd(ALLOT(push(M, k)), w, 5)
    /\ DS % 8 = 0 => AtLineEnd(M, "COLON", 5)

\* ------------------------------------------------------------------------
\* C33
\* ------------------------------------------------------------------------
L_semi == <<59>>
    \* ';'
L_immediate == <<73,77,77,69,68,73,65,84,69>>
    \* 'IMMEDIATE'
L_x == <<120>>
    \* 'x'

\* the run r of ': x 1 foo' has been aborted at foo with the definition of x
\* in progress: its header is the dictionary head and Hidden
AbortedIn(r) ==
    /\ r.how = "abort" /\ r.msg = MsgUnknown
    /\ NameOf(r.m, HeadOf(r.m)) = N_x /\ IsHidden(r.m, HeadOf(r.m))
    /\ NumberAt(r.m, STATE_ADDR) = 0

\* lines that do not define x
Later == {L_empty, L_foo, L_immediate, L_one, L_semi}

\* after the run t of a later line, x does not resolve to the definition
\* with header nfa
Excluded(t, nfa) == t.how \in Returns => Lookup(t.m, N_x) # nfa

\* after the aborted run r, none of the lines makes x resolve to the aborted
\* definition
StaysExcluded(r, lines) ==
    AbortedIn(r) => /\ Lookup(r.m, N_x) # HeadOf(r.m)
                    /\ \A line \in lines : Excluded(RunLine(r.m, line), HeadOf(r.m))

\* C33: in every state, after the line ': x 1 foo' is aborted at foo, x does
\* not resolve to the aborted definition, neither at once nor after any of
\* the later lines '', '1 foo 2', 'IMMEDIATE', ': t 1 ;' and ';', none of
\* which defines x.
C33_StaysHidden == StaysExcluded(RunLine(M, L_colonfoo), Later)

\* the same without the line ';'
C33_WithoutSemicolon == StaysExcluded(RunLine(M, L_colonfoo), Later \ {L_semi})

\* ------------------------------------------------------------------------
\* C34
\* ------------------------------------------------------------------------
\* the names the line ': a 1 ; : b a ; : a 2 ; b a' defines
N_a == <<65>>
N_b == <<66>>

\* the run r has left on the data stack of the machine m the numbers x and y
Pushed(m, r, x, y) ==
    /\ r.m.S = m.S + 16
    /\ NumberAt(r.m, m.S) = x /\ NumberAt(r.m, m.S + 8) = y
    /\ \A i \in 1 .. Len(StackOf(m)) : StackOf(r.m)[i] = StackOf(m)[i]

\* the cells from lo up to hi are the same in the machines m and r
SameCells(m, r, lo, hi) ==
    \A a \in lo .. (hi - 1) : a % 8 = 0 => CellAt(r.mem, a) = CellAt(m.mem, a)

\* the line from the machine m: before is the run past ': a 1 ; : b a ;',
\* after the run past ': a 2 ;' and r the run to the end of the line.  The
\* body of b holds the XT of the older a, the redefinition leaves every cell
\* of the older a and of b as it was, the newer a is the dictionary head,
\* and b then a leave 1 and 2
RedefinedIn(m, before, after, r) ==
    /\ before.how = "loop" /\ after.how = "loop" /\ r.how = "ok"
    /\ NameOf(before.m, RoundUp(m.DS)) = N_a
    /\ NameOf(before.m, HeadOf(before.m)) = N_b
    /\ NumberAt(before.m, HeadOf(before.m) + 48) = NumberAt(before.m, RoundUp(m.DS) + 40)
    /\ HeadOf(after.m) = before.m.DS /\ NameOf(after.m, HeadOf(after.m)) = N_a
    /\ ~IsHidden(after.m, HeadOf(after.m))
    /\ NumberAt(after.m, HeadOf(after.m) + 40) # NumberAt(before.m, RoundUp(m.DS) + 40)
    /\ SameCells(before.m, after.m, RoundUp(m.DS), before.m.DS)
    /\ SameCells(before.m, r.m, RoundUp(m.DS), before.m.DS)
    /\ Pushed(m, r, 1, 2)

Redefined(m) ==
    RedefinedIn(m, AfterTokens(m, L_redef, 6), AfterTokens(m, L_redef, 9), RunLine(m, L_redef))

\* C34: in every state with the dictionary intact, the line
\* ': a 1 ; : b a ; : a 2 ; b a' compiles into b the XT of the a defined
\* first, the definition of the second a changes no cell of the first a or
\* of b, and after it b leaves 1, what the first a leaves, while a leaves 2,
\* what the second leaves.
C34_Redefinition == Intact(M, Dict(M)) => Redefined(LEFT_BRACKET(M))

\* C34 happens: the line is at its end, with 1 and 2 on the data stack, the
\* second a the dictionary head, and b before it
C34_Witness ==
    /\ text = L_redef /\ pc = "idle" /\ ret = "ok" /\ calls = 1
    /\ S = DATA_STACK_ADDR + 16
    /\ NumberAt(M, DATA_STACK_ADDR) = 1 /\ NumberAt(M, DATA_STACK_ADDR + 8) = 2
    /\ NameOf(M, HeadOf(M)) = N_a
    /\ NameOf(M, NumberAt(M, HeadOf(M) + 32)) = N_b

====
